---- MODULE Spec2Model ----
(***************************************************************************)
(* Model of src/mung/ontology/mungClasses.ts: the table DEFINITIONS of raw *)
(* class definitions, the derivation parseMungClassDefinition, and the     *)
(* three module-level views MUNG_CLASSES, MUNG_CLASS_NAMES and             *)
(* MUNG_CLASSES_BY_NAME, evaluated once, in order, when the module loads.  *)
(*                                                                         *)
(* JavaScript values are tagged records: [t |-> "undefined"],              *)
(* [t |-> "boolean", v |-> TRUE], [t |-> "string", v |-> "?"], ...         *)
(* Class names are strings that the code sorts, so they are sequences of   *)
(* UTF-16 code units.                                                      *)
(***************************************************************************)
EXTENDS Integers, Sequences, FiniteSets, TLC

VARIABLES DEFINITIONS, MUNG_CLASSES, MUNG_CLASS_NAMES, MUNG_CLASSES_BY_NAME,
          pc, result

vars == <<DEFINITIONS, MUNG_CLASSES, MUNG_CLASS_NAMES, MUNG_CLASSES_BY_NAME,
          pc, result>>

(***************************************************************************)
(* Bounds of the model.                                                    *)
(***************************************************************************)
\* Largest number of entries of a raw table built from SampleDefs.
MaxEntries == 2

\* Number of importers reading the exported constants.
NumReaders == 2

(***************************************************************************)
(* JavaScript values.                                                      *)
(***************************************************************************)
Undefined == [t |-> "undefined"]

Null == [t |-> "null"]

Bool(b) == [t |-> "boolean", v |-> b]

Str(s) == [t |-> "string", v |-> s]

Arr(a) == [t |-> "array", v |-> a]

\* A plain object, by its own properties.
Obj(props) == [t |-> "object", v |-> props]

\* A module-level const whose initialiser has not run (or has thrown).
NotEvaluated == [t |-> "uninitialized"]

\* ToBoolean, as applied by the operators ! and !!.
ToBoolean(x) ==
  CASE x.t = "undefined" -> FALSE
    [] x.t = "null"      -> FALSE
    [] x.t = "boolean"   -> x.v
    [] x.t = "string"    -> x.v # ""
    [] OTHER             -> TRUE

(***************************************************************************)
(* Class names, as sequences of UTF-16 code units.                         *)
(***************************************************************************)
brace == <<98, 114, 97, 99, 101>>

staff == <<115, 116, 97, 102, 102>>

staffLine == <<115, 116, 97, 102, 102, 76, 105, 110, 101>>

staff5Lines == <<115, 116, 97, 102, 102, 53, 76, 105, 110, 101, 115>>

toString == <<116, 111, 83, 116, 114, 105, 110, 103>>

constructor == <<99, 111, 110, 115, 116, 114, 117, 99, 116, 111, 114>>

doesNotExist == <<100, 111, 101, 115, 78, 111, 116, 69, 120, 105, 115, 116>>

\* Names used as keys of the raw tables explored.  None is an integer
\* index and none is "__proto__", so the keys of the object literal are its
\* own properties in insertion order.
KeyNames == {brace, staff, staffLine, toString}

\* Names looked up: the keys, and names that are keys of no table.
LookupNames == KeyNames \cup {constructor, doesNotExist}

\* Properties every object created by {} inherits from Object.prototype
\* (those among the names looked up).
ObjectPrototypeNames == {toString, constructor}

(***************************************************************************)
(* Raw definitions (interface MungClassDefinition).  A missing optional    *)
(* field reads as undefined.                                               *)
(***************************************************************************)
Def(uc, mpp, notSmufl, smuflEquivalents, container, justification, transcribable) ==
  [t |-> "object",
   uc |-> uc,
   mpp |-> mpp,
   notSmufl |-> notSmufl,
   smuflEquivalents |-> smuflEquivalents,
   container |-> container,
   otherSmuflDivergenceJustification |-> justification,
   transcribable |-> transcribable]

OptBool == {Undefined, Bool(TRUE), Bool(FALSE)}

\* Every combination of field values the interface admits, a missing uc
\* (a malformed entry) included.
AllDefs ==
  {Def(uc, mpp, ns, eq, co, ju, tr) :
     uc \in {Undefined, Str("?")},
     mpp \in OptBool,
     ns \in OptBool \cup {Str(""), Str("legacy")},
     eq \in {Undefined, Arr(<<staff5Lines>>)},
     co \in OptBool,
     ju \in {Undefined, Str(""), Str("Cannot be rendered using a font")},
     tr \in OptBool}

\* Shapes of entry found in the shipped table (unclassified, brace, staffLine,
\* volta), and two malformed ones.
unclassifiedDef ==
  Def(Str("?"), Bool(TRUE), Bool(TRUE), Undefined, Undefined, Undefined, Undefined)

braceDef ==
  Def(Str("E000"), Bool(TRUE), Undefined, Undefined, Undefined, Undefined, Undefined)

staffLineDef ==
  Def(Str("E016"), Bool(TRUE), Bool(TRUE), Undefined, Undefined,
      Str("Cannot be rendered using a font"), Undefined)

voltaDef ==
  Def(Str("1."), Bool(TRUE), Undefined, Undefined, Bool(TRUE), Undefined, Undefined)

\* An entry without its required uc.
noGlyphDef ==
  Def(Undefined, Undefined, Bool(TRUE), Undefined, Undefined, Undefined, Undefined)

SampleDefs ==
  {unclassifiedDef, braceDef, staffLineDef, voltaDef, noGlyphDef, Null}

(***************************************************************************)
(* Raw tables: sequences of entries with distinct keys, in the order of    *)
(* the object's own properties.                                            *)
(***************************************************************************)
Entry(key, def) == [key |-> key, def |-> def]

KeySeqs(n) ==
  {ks \in [1..n -> KeyNames] : \A i, j \in 1..n : i # j => ks[i] # ks[j]}

TablesOf(n, defs) ==
  {[i \in 1..n |-> Entry(ks[i], ds[i])] : ks \in KeySeqs(n), ds \in [1..n -> defs]}

RawTables ==
  TablesOf(1, AllDefs \cup {Null})
    \cup UNION {TablesOf(n, SampleDefs) : n \in 0..MaxEntries}

(***************************************************************************)
(* The table the module ships: const DEFINITIONS = { ... }, entry by entry *)
(* in source order.  A code point written \u{E000} in the source is        *)
(* spelled [U+E000] in uc, which the module only copies.                   *)
(***************************************************************************)
ShippedDefinitions ==
  <<
    Entry(<<117, 110, 99, 108, 97, 115, 115, 105, 102, 105, 101, 100>>, \* unclassified
          Def(Str("?"), Bool(TRUE), Bool(TRUE), Undefined, Undefined, Undefined, Undefined)),
    Entry(<<111, 116, 104, 101, 114, 78, 117, 109, 101, 114, 105, 99, 83, 105, 103, 110>>, \* otherNumericSign
          Def(Str("?"), Bool(TRUE), Bool(TRUE), Undefined, Undefined, Undefined, Undefined)),
    Entry(<<111, 115, 115, 105, 97>>, \* ossia
          Def(Str("?"), Bool(TRUE), Bool(TRUE), Undefined, Undefined, Undefined, Undefined)),
    Entry(<<114, 101, 104, 101, 97, 114, 115, 97, 108, 77, 97, 114, 107>>, \* rehearsalMark
          Def(Str("?"), Bool(TRUE), Bool(TRUE), Undefined, Undefined, Undefined, Undefined)),
    Entry(<<105, 110, 115, 116, 114, 117, 109, 101, 110, 116, 78, 97, 109, 101>>, \* instrumentName
          Def(Str("Pno"), Bool(TRUE), Bool(TRUE), Undefined, Undefined, Undefined, Undefined)),
    Entry(<<105, 110, 115, 116, 114, 117, 109, 101, 110, 116, 83, 112, 101, 99, 105, 102, 105, 99>>, \* instrumentSpecific
          Def(Str("?"), Bool(TRUE), Bool(TRUE), Undefined, Undefined, Undefined, Undefined)),
    Entry(<<115, 116, 97, 102, 102, 71, 114, 111, 117, 112, 105, 110, 103>>, \* staffGrouping
          Def(Str("[U+E000]"), Bool(TRUE), Bool(TRUE), Arr(<<<<98, 114, 97, 99, 101>>, <<98, 114, 97, 99, 107, 101, 116>>>>), Undefined, Undefined, Undefined)),
    Entry(<<98, 114, 97, 99, 101>>, \* brace
          Def(Str("[U+E000]"), Bool(TRUE), Undefined, Undefined, Undefined, Undefined, Undefined)),
    Entry(<<98, 114, 97, 99, 107, 101, 116>>, \* bracket
          Def(Str("[U+E002]"), Bool(TRUE), Undefined, Undefined, Undefined, Undefined, Undefined)),
    Entry(<<115, 121, 115, 116, 101, 109, 83, 101, 112, 97, 114, 97, 116, 111, 114>>, \* systemSeparator
          Def(Str("[U+E007]"), Bool(TRUE), Bool(TRUE), Arr(<<<<115, 121, 115, 116, 101, 109, 68, 105, 118, 105, 100, 101, 114>>>>), Undefined, Undefined, Undefined)),
    Entry(<<115, 121, 115, 116, 101, 109, 68, 105, 118, 105, 100, 101, 114>>, \* systemDivider
          Def(Str("[U+E007]"), Undefined, Undefined, Undefined, Undefined, Undefined, Undefined)),
    Entry(<<115, 112, 108, 105, 116, 66, 97, 114, 68, 105, 118, 105, 100, 101, 114>>, \* splitBarDivider
          Def(Str("[U+E00A]"), Undefined, Undefined, Undefined, Undefined, Undefined, Undefined)),
    Entry(<<99, 117, 115, 116, 111, 115>>, \* custos
          Def(Str("[U+E56C]"), Undefined, Undefined, Undefined, Undefined, Undefined, Undefined)),
    Entry(<<115, 116, 97, 102, 102, 76, 105, 110, 101>>, \* staffLine
          Def(Str("[U+E016][U+2800]"), Bool(TRUE), Bool(TRUE), Undefined, Undefined, Str("Cannot be rendered using a font. The staff1Line class is a different thing semantically."), Undefined)),
    Entry(<<115, 116, 97, 102, 102, 83, 112, 97, 99, 101>>, \* staffSpace
          Def(Str("[U+E011]"), Bool(TRUE), Bool(TRUE), Undefined, Undefined, Undefined, Undefined)),
    Entry(<<115, 116, 97, 102, 102>>, \* staff
          Def(Str("[U+E01A][U+2800]"), Bool(TRUE), Undefined, Arr(<<<<115, 116, 97, 102, 102, 53, 76, 105, 110, 101, 115>>>>), Undefined, Undefined, Undefined)),
    Entry(<<108, 101, 103, 101, 114, 76, 105, 110, 101>>, \* legerLine
          Def(Str("[U+E022]"), Bool(TRUE), Undefined, Undefined, Undefined, Undefined, Undefined)),
    Entry(<<98, 97, 114, 78, 117, 109, 98, 101, 114>>, \* barNumber
          Def(Str("42"), Bool(TRUE), Bool(TRUE), Undefined, Undefined, Undefined, Undefined)),
    Entry(<<109, 101, 97, 115, 117, 114, 101, 83, 101, 112, 97, 114, 97, 116, 111, 114>>, \* measureSeparator
          Def(Str("[U+E030]"), Bool(TRUE), Bool(TRUE), Undefined, Bool(TRUE), Undefined, Undefined)),
    Entry(<<98, 97, 114, 108, 105, 110, 101>>, \* barline
          Def(Str("[U+E030]"), Bool(TRUE), Bool(TRUE), Arr(<<<<98, 97, 114, 108, 105, 110, 101, 83, 105, 110, 103, 108, 101>>>>), Undefined, Undefined, Undefined)),
    Entry(<<98, 97, 114, 108, 105, 110, 101, 83, 105, 110, 103, 108, 101>>, \* barlineSingle
          Def(Str("[U+E030]"), Undefined, Undefined, Undefined, Undefined, Undefined, Undefined)),
    Entry(<<98, 97, 114, 108, 105, 110, 101, 70, 105, 110, 97, 108>>, \* barlineFinal
          Def(Str("[U+E032]"), Undefined, Undefined, Undefined, Undefined, Undefined, Undefined)),
    Entry(<<98, 97, 114, 108, 105, 110, 101, 72, 101, 97, 118, 121>>, \* barlineHeavy
          Def(Str("[U+E034]"), Bool(TRUE), Undefined, Undefined, Undefined, Undefined, Undefined)),
    Entry(<<98, 97, 114, 108, 105, 110, 101, 87, 105, 110, 103>>, \* barlineWing
          Def(Str("[U+E002][U+E043]"), Undefined, Bool(TRUE), Undefined, Undefined, Undefined, Undefined)),
    Entry(<<114, 101, 112, 101, 97, 116>>, \* repeat
          Def(Str("[U+E042]"), Bool(TRUE), Undefined, Arr(<<<<114, 101, 112, 101, 97, 116, 76, 101, 102, 116>>, <<114, 101, 112, 101, 97, 116, 82, 105, 103, 104, 116>>>>), Undefined, Undefined, Undefined)),
    Entry(<<114, 101, 112, 101, 97, 116, 84, 101, 120, 116>>, \* repeatText
          Def(Str("D.C."), Undefined, Bool(TRUE), Undefined, Undefined, Undefined, Bool(TRUE))),
    Entry(<<118, 111, 108, 116, 97>>, \* volta
          Def(Str("1."), Bool(TRUE), Undefined, Undefined, Bool(TRUE), Undefined, Undefined)),
    Entry(<<118, 111, 108, 116, 97, 84, 101, 120, 116>>, \* voltaText
          Def(Str("1."), Undefined, Bool(TRUE), Undefined, Undefined, Undefined, Bool(TRUE))),
    Entry(<<114, 101, 112, 101, 97, 116, 76, 101, 102, 116>>, \* repeatLeft
          Def(Str("[U+E040]"), Undefined, Undefined, Undefined, Undefined, Undefined, Undefined)),
    Entry(<<114, 101, 112, 101, 97, 116, 82, 105, 103, 104, 116>>, \* repeatRight
          Def(Str("[U+E041]"), Undefined, Undefined, Undefined, Undefined, Undefined, Undefined)),
    Entry(<<114, 101, 112, 101, 97, 116, 68, 111, 116>>, \* repeatDot
          Def(Str("[U+E043]"), Bool(TRUE), Undefined, Undefined, Undefined, Undefined, Undefined)),
    Entry(<<115, 101, 103, 110, 111>>, \* segno
          Def(Str("[U+E047]"), Bool(TRUE), Undefined, Undefined, Undefined, Undefined, Undefined)),
    Entry(<<99, 111, 100, 97>>, \* coda
          Def(Str("[U+E048]"), Bool(TRUE), Undefined, Undefined, Undefined, Undefined, Undefined)),
    Entry(<<115, 101, 103, 110, 111, 83, 101, 114, 112, 101, 110, 116>>, \* segnoSerpent
          Def(Str("[U+E04A]"), Undefined, Bool(TRUE), Undefined, Undefined, Undefined, Undefined)),
    Entry(<<103, 67, 108, 101, 102>>, \* gClef
          Def(Str("[U+E050]"), Bool(TRUE), Undefined, Undefined, Undefined, Undefined, Undefined)),
    Entry(<<99, 67, 108, 101, 102>>, \* cClef
          Def(Str("[U+E05C]"), Bool(TRUE), Undefined, Undefined, Undefined, Undefined, Undefined)),
    Entry(<<99, 67, 108, 101, 102, 83, 113, 117, 97, 114, 101>>, \* cClefSquare
          Def(Str("[U+E060]"), Undefined, Undefined, Undefined, Undefined, Undefined, Undefined)),
    Entry(<<102, 67, 108, 101, 102>>, \* fClef
          Def(Str("[U+E062]"), Bool(TRUE), Undefined, Undefined, Undefined, Undefined, Undefined)),
    Entry(<<117, 110, 112, 105, 116, 99, 104, 101, 100, 80, 101, 114, 99, 117, 115, 115, 105, 111, 110, 67, 108, 101, 102, 49>>, \* unpitchedPercussionClef1
          Def(Str("[U+E069]"), Undefined, Undefined, Undefined, Undefined, Undefined, Undefined)),
    Entry(<<117, 110, 112, 105, 116, 99, 104, 101, 100, 80, 101, 114, 99, 117, 115, 115, 105, 111, 110, 67, 108, 101, 102, 50>>, \* unpitchedPercussionClef2
          Def(Str("[U+E06A]"), Undefined, Undefined, Undefined, Undefined, Undefined, Undefined)),
    Entry(<<115, 101, 109, 105, 112, 105, 116, 99, 104, 101, 100, 80, 101, 114, 99, 117, 115, 115, 105, 111, 110, 67, 108, 101, 102, 49>>, \* semipitchedPercussionClef1
          Def(Str("[U+E06B]"), Undefined, Undefined, Undefined, Undefined, Undefined, Undefined)),
    Entry(<<115, 101, 109, 105, 112, 105, 116, 99, 104, 101, 100, 80, 101, 114, 99, 117, 115, 115, 105, 111, 110, 67, 108, 101, 102, 50>>, \* semipitchedPercussionClef2
          Def(Str("[U+E06C]"), Undefined, Undefined, Undefined, Undefined, Undefined, Undefined)),
    Entry(<<54, 115, 116, 114, 105, 110, 103, 84, 97, 98, 67, 108, 101, 102>>, \* 6stringTabClef
          Def(Str("[U+E06D]"), Undefined, Undefined, Undefined, Undefined, Undefined, Undefined)),
    Entry(<<52, 115, 116, 114, 105, 110, 103, 84, 97, 98, 67, 108, 101, 102>>, \* 4stringTabClef
          Def(Str("[U+E06E]"), Undefined, Undefined, Undefined, Undefined, Undefined, Undefined)),
    Entry(<<103, 67, 108, 101, 102, 67, 104, 97, 110, 103, 101>>, \* gClefChange
          Def(Str("[U+E07A]"), Undefined, Undefined, Undefined, Undefined, Undefined, Undefined)),
    Entry(<<99, 67, 108, 101, 102, 67, 104, 97, 110, 103, 101>>, \* cClefChange
          Def(Str("[U+E07B]"), Undefined, Undefined, Undefined, Undefined, Undefined, Undefined)),
    Entry(<<102, 67, 108, 101, 102, 67, 104, 97, 110, 103, 101>>, \* fClefChange
          Def(Str("[U+E07C]"), Undefined, Undefined, Undefined, Undefined, Undefined, Undefined)),
    Entry(<<99, 108, 101, 102, 56>>, \* clef8
          Def(Str("[U+E07D]"), Undefined, Undefined, Undefined, Undefined, Undefined, Undefined)),
    Entry(<<99, 108, 101, 102, 49, 53>>, \* clef15
          Def(Str("[U+E07E]"), Undefined, Undefined, Undefined, Undefined, Undefined, Undefined)),
    Entry(<<116, 105, 109, 101, 83, 105, 103, 110, 97, 116, 117, 114, 101>>, \* timeSignature
          Def(Str("[U+F5FC]"), Bool(TRUE), Bool(TRUE), Undefined, Bool(TRUE), Undefined, Undefined)),
    Entry(<<116, 105, 109, 101, 83, 105, 103, 48>>, \* timeSig0
          Def(Str("[U+E080]"), Undefined, Undefined, Undefined, Undefined, Undefined, Undefined)),
    Entry(<<116, 105, 109, 101, 83, 105, 103, 49>>, \* timeSig1
          Def(Str("[U+E081]"), Undefined, Undefined, Undefined, Undefined, Undefined, Undefined)),
    Entry(<<116, 105, 109, 101, 83, 105, 103, 50>>, \* timeSig2
          Def(Str("[U+E082]"), Undefined, Undefined, Undefined, Undefined, Undefined, Undefined)),
    Entry(<<116, 105, 109, 101, 83, 105, 103, 51>>, \* timeSig3
          Def(Str("[U+E083]"), Undefined, Undefined, Undefined, Undefined, Undefined, Undefined)),
    Entry(<<116, 105, 109, 101, 83, 105, 103, 52>>, \* timeSig4
          Def(Str("[U+E084]"), Undefined, Undefined, Undefined, Undefined, Undefined, Undefined)),
    Entry(<<116, 105, 109, 101, 83, 105, 103, 53>>, \* timeSig5
          Def(Str("[U+E085]"), Undefined, Undefined, Undefined, Undefined, Undefined, Undefined)),
    Entry(<<116, 105, 109, 101, 83, 105, 103, 54>>, \* timeSig6
          Def(Str("[U+E086]"), Undefined, Undefined, Undefined, Undefined, Undefined, Undefined)),
    Entry(<<116, 105, 109, 101, 83, 105, 103, 55>>, \* timeSig7
          Def(Str("[U+E087]"), Undefined, Undefined, Undefined, Undefined, Undefined, Undefined)),
    Entry(<<116, 105, 109, 101, 83, 105, 103, 56>>, \* timeSig8
          Def(Str("[U+E088]"), Undefined, Undefined, Undefined, Undefined, Undefined, Undefined)),
    Entry(<<116, 105, 109, 101, 83, 105, 103, 57>>, \* timeSig9
          Def(Str("[U+E089]"), Undefined, Undefined, Undefined, Undefined, Undefined, Undefined)),
    Entry(<<116, 105, 109, 101, 83, 105, 103, 67, 111, 109, 109, 111, 110>>, \* timeSigCommon
          Def(Str("[U+E08A]"), Bool(TRUE), Undefined, Undefined, Undefined, Undefined, Undefined)),
    Entry(<<109, 101, 110, 115, 117, 114, 97, 108, 80, 114, 111, 108, 97, 116, 105, 111, 110, 67, 111, 109, 98, 105, 110, 105, 110, 103, 68, 111, 116>>, \* mensuralProlationCombiningDot
          Def(Str("[U+E914]"), Bool(TRUE), Undefined, Undefined, Undefined, Undefined, Undefined)),
    Entry(<<116, 105, 109, 101, 83, 105, 103, 67, 117, 116, 67, 111, 109, 109, 111, 110>>, \* timeSigCutCommon
          Def(Str("[U+E08B]"), Bool(TRUE), Undefined, Undefined, Undefined, Undefined, Undefined)),
    Entry(<<116, 105, 109, 101, 83, 105, 103, 83, 108, 97, 115, 104>>, \* timeSigSlash
          Def(Str("[U+EC84]"), Undefined, Undefined, Undefined, Undefined, Undefined, Undefined)),
    Entry(<<116, 105, 109, 101, 83, 105, 103, 70, 114, 97, 99, 116, 105, 111, 110, 97, 108, 83, 108, 97, 115, 104>>, \* timeSigFractionalSlash
          Def(Str("[U+E08E]"), Undefined, Undefined, Undefined, Undefined, Undefined, Undefined)),
    Entry(<<116, 105, 109, 101, 83, 105, 103, 80, 108, 117, 115>>, \* timeSigPlus
          Def(Str("[U+E08C]"), Undefined, Undefined, Undefined, Undefined, Undefined, Undefined)),
    Entry(<<116, 105, 109, 101, 83, 105, 103, 69, 113, 117, 97, 108, 115>>, \* timeSigEquals
          Def(Str("[U+E08F]"), Undefined, Undefined, Undefined, Undefined, Undefined, Undefined)),
    Entry(<<116, 105, 109, 101, 83, 105, 103, 77, 105, 110, 117, 115>>, \* timeSigMinus
          Def(Str("[U+E090]"), Undefined, Undefined, Undefined, Undefined, Undefined, Undefined)),
    Entry(<<116, 105, 109, 101, 83, 105, 103, 77, 117, 108, 116, 105, 112, 108, 121>>, \* timeSigMultiply
          Def(Str("[U+E091]"), Undefined, Undefined, Undefined, Undefined, Undefined, Undefined)),
    Entry(<<116, 105, 109, 101, 83, 105, 103, 88>>, \* timeSigX
          Def(Str("[U+E09C]"), Undefined, Undefined, Undefined, Undefined, Undefined, Undefined)),
    Entry(<<110, 111, 116, 101, 104, 101, 97, 100, 68, 111, 117, 98, 108, 101, 87, 104, 111, 108, 101>>, \* noteheadDoubleWhole
          Def(Str("[U+E0A0]"), Undefined, Undefined, Undefined, Undefined, Undefined, Undefined)),
    Entry(<<110, 111, 116, 101, 104, 101, 97, 100, 68, 111, 117, 98, 108, 101, 87, 104, 111, 108, 101, 83, 113, 117, 97, 114, 101>>, \* noteheadDoubleWholeSquare
          Def(Str("[U+E0A1]"), Undefined, Undefined, Undefined, Undefined, Undefined, Undefined)),
    Entry(<<110, 111, 116, 101, 104, 101, 97, 100, 87, 104, 111, 108, 101>>, \* noteheadWhole
          Def(Str("[U+E0A2]"), Bool(TRUE), Undefined, Undefined, Undefined, Undefined, Undefined)),
    Entry(<<110, 111, 116, 101, 104, 101, 97, 100, 72, 97, 108, 102>>, \* noteheadHalf
          Def(Str("[U+E0A3]"), Bool(TRUE), Undefined, Undefined, Undefined, Undefined, Undefined)),
    Entry(<<110, 111, 116, 101, 104, 101, 97, 100, 66, 108, 97, 99, 107>>, \* noteheadBlack
          Def(Str("[U+E0A4]"), Undefined, Undefined, Undefined, Undefined, Undefined, Undefined)),
    Entry(<<110, 111, 116, 101, 104, 101, 97, 100, 70, 117, 108, 108>>, \* noteheadFull
          Def(Str("[U+E0A4]"), Bool(TRUE), Bool(TRUE), Arr(<<<<110, 111, 116, 101, 104, 101, 97, 100, 66, 108, 97, 99, 107>>>>), Undefined, Undefined, Undefined)),
    Entry(<<110, 111, 116, 101, 104, 101, 97, 100, 88, 66, 108, 97, 99, 107>>, \* noteheadXBlack
          Def(Str("[U+E0A9]"), Undefined, Undefined, Undefined, Undefined, Undefined, Undefined)),
    Entry(<<110, 111, 116, 101, 104, 101, 97, 100, 88, 79, 114, 110, 97, 116, 101>>, \* noteheadXOrnate
          Def(Str("[U+E0AA]"), Undefined, Undefined, Undefined, Undefined, Undefined, Undefined)),
    Entry(<<110, 111, 116, 101, 104, 101, 97, 100, 87, 104, 111, 108, 101, 83, 109, 97, 108, 108>>, \* noteheadWholeSmall
          Def(Str("[U+E0A2]"), Undefined, Undefined, Undefined, Undefined, Undefined, Undefined)),
    Entry(<<110, 111, 116, 101, 104, 101, 97, 100, 72, 97, 108, 102, 83, 109, 97, 108, 108>>, \* noteheadHalfSmall
          Def(Str("[U+E0A3]"), Bool(TRUE), Undefined, Undefined, Undefined, Undefined, Undefined)),
    Entry(<<110, 111, 116, 101, 104, 101, 97, 100, 66, 108, 97, 99, 107, 83, 109, 97, 108, 108>>, \* noteheadBlackSmall
          Def(Str("[U+E0A4]"), Undefined, Undefined, Undefined, Undefined, Undefined, Undefined)),
    Entry(<<110, 111, 116, 101, 104, 101, 97, 100, 70, 117, 108, 108, 83, 109, 97, 108, 108>>, \* noteheadFullSmall
          Def(Str("[U+E0A4]"), Bool(TRUE), Bool(TRUE), Arr(<<<<110, 111, 116, 101, 104, 101, 97, 100, 66, 108, 97, 99, 107, 83, 109, 97, 108, 108>>>>), Undefined, Undefined, Undefined)),
    Entry(<<110, 111, 116, 101, 104, 101, 97, 100, 83, 108, 97, 115, 104, 86, 101, 114, 116, 105, 99, 97, 108, 69, 110, 100, 115>>, \* noteheadSlashVerticalEnds
          Def(Str("[U+E100]"), Undefined, Undefined, Undefined, Undefined, Undefined, Undefined)),
    Entry(<<110, 111, 116, 101, 104, 101, 97, 100, 83, 108, 97, 115, 104, 72, 111, 114, 105, 122, 111, 110, 116, 97, 108, 69, 110, 100, 115>>, \* noteheadSlashHorizontalEnds
          Def(Str("[U+E101]"), Undefined, Undefined, Undefined, Undefined, Undefined, Undefined)),
    Entry(<<110, 111, 116, 101, 104, 101, 97, 100, 83, 108, 97, 115, 104, 87, 104, 105, 116, 101, 87, 104, 111, 108, 101>>, \* noteheadSlashWhiteWhole
          Def(Str("[U+E102]"), Undefined, Undefined, Undefined, Undefined, Undefined, Undefined)),
    Entry(<<110, 111, 116, 101, 104, 101, 97, 100, 83, 108, 97, 115, 104, 87, 104, 105, 116, 101, 72, 97, 108, 102>>, \* noteheadSlashWhiteHalf
          Def(Str("[U+E103]"), Undefined, Undefined, Undefined, Undefined, Undefined, Undefined)),
    Entry(<<97, 117, 103, 109, 101, 110, 116, 97, 116, 105, 111, 110, 68, 111, 116>>, \* augmentationDot
          Def(Str("[U+E1E7]"), Bool(TRUE), Undefined, Undefined, Undefined, Undefined, Undefined)),
    Entry(<<115, 116, 101, 109>>, \* stem
          Def(Str("[U+E210]"), Bool(TRUE), Undefined, Undefined, Undefined, Undefined, Undefined)),
    Entry(<<116, 114, 101, 109, 111, 108, 111, 66, 101, 97, 109>>, \* tremoloBeam
          Def(Str("[U+E1F1] [U+E1FA][U+E1F1]"), Undefined, Bool(TRUE), Undefined, Undefined, Str("Cannot be rendered using a font"), Undefined)),
    Entry(<<116, 114, 101, 109, 111, 108, 111, 77, 97, 114, 107>>, \* tremoloMark
          Def(Str("[U+E1F1] [U+E1FA][U+E1F1]"), Bool(TRUE), Bool(TRUE), Undefined, Undefined, Undefined, Undefined)),
    Entry(<<109, 117, 108, 116, 105, 112, 108, 101, 78, 111, 116, 101, 84, 114, 101, 109, 111, 108, 111>>, \* multipleNoteTremolo
          Def(Str("[U+E1F1] [U+E1FA][U+E1F1]"), Bool(TRUE), Bool(TRUE), Undefined, Undefined, Undefined, Undefined)),
    Entry(<<115, 105, 110, 103, 108, 101, 78, 111, 116, 101, 84, 114, 101, 109, 111, 108, 111>>, \* singleNoteTremolo
          Def(Str("[U+E220]"), Bool(TRUE), Bool(TRUE), Undefined, Undefined, Undefined, Undefined)),
    Entry(<<116, 114, 101, 109, 111, 108, 111, 49>>, \* tremolo1
          Def(Str("[U+E220]"), Undefined, Undefined, Undefined, Undefined, Undefined, Undefined)),
    Entry(<<116, 114, 101, 109, 111, 108, 111, 50>>, \* tremolo2
          Def(Str("[U+E221]"), Undefined, Undefined, Undefined, Undefined, Undefined, Undefined)),
    Entry(<<116, 114, 101, 109, 111, 108, 111, 51>>, \* tremolo3
          Def(Str("[U+E222]"), Undefined, Undefined, Undefined, Undefined, Undefined, Undefined)),
    Entry(<<116, 114, 101, 109, 111, 108, 111, 52>>, \* tremolo4
          Def(Str("[U+E223]"), Undefined, Undefined, Undefined, Undefined, Undefined, Undefined)),
    Entry(<<116, 114, 101, 109, 111, 108, 111, 53>>, \* tremolo5
          Def(Str("[U+E224]"), Undefined, Undefined, Undefined, Undefined, Undefined, Undefined)),
    Entry(<<98, 117, 122, 122, 82, 111, 108, 108>>, \* buzzRoll
          Def(Str("[U+E22A]"), Undefined, Undefined, Undefined, Undefined, Undefined, Undefined)),
    Entry(<<102, 108, 97, 103, 56, 116, 104, 85, 112>>, \* flag8thUp
          Def(Str("[U+E1D7]"), Bool(TRUE), Undefined, Undefined, Undefined, Undefined, Undefined)),
    Entry(<<102, 108, 97, 103, 56, 116, 104, 68, 111, 119, 110>>, \* flag8thDown
          Def(Str("[U+E1D8]"), Bool(TRUE), Undefined, Undefined, Undefined, Undefined, Undefined)),
    Entry(<<102, 108, 97, 103, 49, 54, 116, 104, 85, 112>>, \* flag16thUp
          Def(Str("[U+E1D9]"), Bool(TRUE), Undefined, Undefined, Undefined, Undefined, Undefined)),
    Entry(<<102, 108, 97, 103, 49, 54, 116, 104, 68, 111, 119, 110>>, \* flag16thDown
          Def(Str("[U+E1DA]"), Bool(TRUE), Undefined, Undefined, Undefined, Undefined, Undefined)),
    Entry(<<102, 108, 97, 103, 51, 50, 110, 100, 85, 112>>, \* flag32ndUp
          Def(Str("[U+E1DB]"), Bool(TRUE), Undefined, Undefined, Undefined, Undefined, Undefined)),
    Entry(<<102, 108, 97, 103, 51, 50, 110, 100, 68, 111, 119, 110>>, \* flag32ndDown
          Def(Str("[U+E1DC]"), Bool(TRUE), Undefined, Undefined, Undefined, Undefined, Undefined)),
    Entry(<<102, 108, 97, 103, 54, 52, 116, 104, 85, 112>>, \* flag64thUp
          Def(Str("[U+E1DD]"), Bool(TRUE), Undefined, Undefined, Undefined, Undefined, Undefined)),
    Entry(<<102, 108, 97, 103, 54, 52, 116, 104, 68, 111, 119, 110>>, \* flag64thDown
          Def(Str("[U+E1DE]"), Bool(TRUE), Undefined, Undefined, Undefined, Undefined, Undefined)),
    Entry(<<102, 108, 97, 103, 49, 50, 56, 116, 104, 85, 112>>, \* flag128thUp
          Def(Str("[U+E1DF]"), Undefined, Undefined, Undefined, Undefined, Undefined, Undefined)),
    Entry(<<102, 108, 97, 103, 49, 50, 56, 116, 104, 68, 111, 119, 110>>, \* flag128thDown
          Def(Str("[U+E1E0]"), Undefined, Undefined, Undefined, Undefined, Undefined, Undefined)),
    Entry(<<102, 108, 97, 103, 50, 53, 54, 116, 104, 85, 112>>, \* flag256thUp
          Def(Str("[U+E1E1]"), Undefined, Undefined, Undefined, Undefined, Undefined, Undefined)),
    Entry(<<102, 108, 97, 103, 50, 53, 54, 116, 104, 68, 111, 119, 110>>, \* flag256thDown
          Def(Str("[U+E1E2]"), Undefined, Undefined, Undefined, Undefined, Undefined, Undefined)),
    Entry(<<102, 108, 97, 103, 53, 49, 50, 116, 104, 85, 112>>, \* flag512thUp
          Def(Str("[U+E1E3]"), Undefined, Undefined, Undefined, Undefined, Undefined, Undefined)),
    Entry(<<102, 108, 97, 103, 53, 49, 50, 116, 104, 68, 111, 119, 110>>, \* flag512thDown
          Def(Str("[U+E1E4]"), Undefined, Undefined, Undefined, Undefined, Undefined, Undefined)),
    Entry(<<102, 108, 97, 103, 49, 48, 50, 52, 116, 104, 85, 112>>, \* flag1024thUp
          Def(Str("[U+E1E5]"), Undefined, Undefined, Undefined, Undefined, Undefined, Undefined)),
    Entry(<<102, 108, 97, 103, 49, 48, 50, 52, 116, 104, 68, 111, 119, 110>>, \* flag1024thDown
          Def(Str("[U+E1E6]"), Undefined, Undefined, Undefined, Undefined, Undefined, Undefined)),
    Entry(<<107, 101, 121, 83, 105, 103, 110, 97, 116, 117, 114, 101>>, \* keySignature
          Def(Str("[U+E269]"), Bool(TRUE), Bool(TRUE), Undefined, Bool(TRUE), Undefined, Undefined)),
    Entry(<<97, 99, 99, 105, 100, 101, 110, 116, 97, 108, 70, 108, 97, 116>>, \* accidentalFlat
          Def(Str("[U+E260]"), Bool(TRUE), Undefined, Undefined, Undefined, Undefined, Undefined)),
    Entry(<<97, 99, 99, 105, 100, 101, 110, 116, 97, 108, 78, 97, 116, 117, 114, 97, 108>>, \* accidentalNatural
          Def(Str("[U+E261]"), Bool(TRUE), Undefined, Undefined, Undefined, Undefined, Undefined)),
    Entry(<<97, 99, 99, 105, 100, 101, 110, 116, 97, 108, 83, 104, 97, 114, 112>>, \* accidentalSharp
          Def(Str("[U+E262]"), Bool(TRUE), Undefined, Undefined, Undefined, Undefined, Undefined)),
    Entry(<<97, 99, 99, 105, 100, 101, 110, 116, 97, 108, 68, 111, 117, 98, 108, 101, 83, 104, 97, 114, 112>>, \* accidentalDoubleSharp
          Def(Str("[U+E263]"), Bool(TRUE), Undefined, Undefined, Undefined, Undefined, Undefined)),
    Entry(<<97, 99, 99, 105, 100, 101, 110, 116, 97, 108, 68, 111, 117, 98, 108, 101, 70, 108, 97, 116>>, \* accidentalDoubleFlat
          Def(Str("[U+E264]"), Bool(TRUE), Undefined, Undefined, Undefined, Undefined, Undefined)),
    Entry(<<97, 99, 99, 105, 100, 101, 110, 116, 97, 108, 84, 114, 105, 112, 108, 101, 83, 104, 97, 114, 112>>, \* accidentalTripleSharp
          Def(Str("[U+E265]"), Undefined, Undefined, Undefined, Undefined, Undefined, Undefined)),
    Entry(<<97, 99, 99, 105, 100, 101, 110, 116, 97, 108, 84, 114, 105, 112, 108, 101, 70, 108, 97, 116>>, \* accidentalTripleFlat
          Def(Str("[U+E266]"), Undefined, Undefined, Undefined, Undefined, Undefined, Undefined)),
    Entry(<<97, 99, 99, 105, 100, 101, 110, 116, 97, 108, 78, 97, 116, 117, 114, 97, 108, 70, 108, 97, 116>>, \* accidentalNaturalFlat
          Def(Str("[U+E267]"), Undefined, Undefined, Undefined, Undefined, Undefined, Undefined)),
    Entry(<<97, 99, 99, 105, 100, 101, 110, 116, 97, 108, 78, 97, 116, 117, 114, 97, 108, 83, 104, 97, 114, 112>>, \* accidentalNaturalSharp
          Def(Str("[U+E268]"), Undefined, Undefined, Undefined, Undefined, Undefined, Undefined)),
    Entry(<<97, 99, 99, 105, 100, 101, 110, 116, 97, 108, 83, 104, 97, 114, 112, 83, 104, 97, 114, 112>>, \* accidentalSharpSharp
          Def(Str("[U+E269]"), Undefined, Undefined, Undefined, Undefined, Undefined, Undefined)),
    Entry(<<97, 99, 99, 105, 100, 101, 110, 116, 97, 108, 80, 97, 114, 101, 110, 115, 76, 101, 102, 116>>, \* accidentalParensLeft
          Def(Str("[U+E26A]"), Undefined, Undefined, Undefined, Undefined, Undefined, Undefined)),
    Entry(<<97, 99, 99, 105, 100, 101, 110, 116, 97, 108, 80, 97, 114, 101, 110, 115, 82, 105, 103, 104, 116>>, \* accidentalParensRight
          Def(Str("[U+E26B]"), Undefined, Undefined, Undefined, Undefined, Undefined, Undefined)),
    Entry(<<97, 99, 99, 105, 100, 101, 110, 116, 97, 108, 66, 114, 97, 99, 107, 101, 116, 76, 101, 102, 116>>, \* accidentalBracketLeft
          Def(Str("[U+E26C]"), Undefined, Undefined, Undefined, Undefined, Undefined, Undefined)),
    Entry(<<97, 99, 99, 105, 100, 101, 110, 116, 97, 108, 66, 114, 97, 99, 107, 101, 116, 82, 105, 103, 104, 116>>, \* accidentalBracketRight
          Def(Str("[U+E26D]"), Undefined, Undefined, Undefined, Undefined, Undefined, Undefined)),
    Entry(<<100, 111, 117, 98, 108, 101, 95, 115, 104, 97, 114, 112>>, \* double_sharp
          Def(Str("[U+E263]"), Bool(TRUE), Bool(TRUE), Arr(<<<<97, 99, 99, 105, 100, 101, 110, 116, 97, 108, 68, 111, 117, 98, 108, 101, 83, 104, 97, 114, 112>>>>), Undefined, Undefined, Undefined)),
    Entry(<<100, 111, 117, 98, 108, 101, 95, 102, 108, 97, 116>>, \* double_flat
          Def(Str("[U+E264]"), Bool(TRUE), Bool(TRUE), Arr(<<<<97, 99, 99, 105, 100, 101, 110, 116, 97, 108, 68, 111, 117, 98, 108, 101, 70, 108, 97, 116>>>>), Undefined, Undefined, Undefined)),
    Entry(<<97, 114, 116, 105, 99, 117, 108, 97, 116, 105, 111, 110, 65, 99, 99, 101, 110, 116>>, \* articulationAccent
          Def(Str("[U+E4A0]"), Bool(TRUE), Bool(TRUE), Arr(<<<<97, 114, 116, 105, 99, 65, 99, 99, 101, 110, 116, 65, 98, 111, 118, 101>>, <<97, 114, 116, 105, 99, 65, 99, 99, 101, 110, 116, 66, 101, 108, 111, 119>>>>), Undefined, Undefined, Undefined)),
    Entry(<<97, 114, 116, 105, 99, 117, 108, 97, 116, 105, 111, 110, 77, 97, 114, 99, 97, 116, 111, 65, 98, 111, 118, 101>>, \* articulationMarcatoAbove
          Def(Str("[U+E4AC]"), Bool(TRUE), Bool(TRUE), Arr(<<<<97, 114, 116, 105, 99, 77, 97, 114, 99, 97, 116, 111, 65, 98, 111, 118, 101>>>>), Undefined, Undefined, Undefined)),
    Entry(<<97, 114, 116, 105, 99, 117, 108, 97, 116, 105, 111, 110, 77, 97, 114, 99, 97, 116, 111, 66, 101, 108, 111, 119>>, \* articulationMarcatoBelow
          Def(Str("[U+E4AD]"), Bool(TRUE), Bool(TRUE), Arr(<<<<97, 114, 116, 105, 99, 77, 97, 114, 99, 97, 116, 111, 66, 101, 108, 111, 119>>>>), Undefined, Undefined, Undefined)),
    Entry(<<97, 114, 116, 105, 99, 117, 108, 97, 116, 105, 111, 110, 83, 116, 97, 99, 99, 97, 116, 111>>, \* articulationStaccato
          Def(Str("[U+E4A2]"), Bool(TRUE), Bool(TRUE), Arr(<<<<97, 114, 116, 105, 99, 83, 116, 97, 99, 99, 97, 116, 111, 65, 98, 111, 118, 101>>, <<97, 114, 116, 105, 99, 83, 116, 97, 99, 99, 97, 116, 111, 66, 101, 108, 111, 119>>>>), Undefined, Undefined, Undefined)),
    Entry(<<97, 114, 116, 105, 99, 117, 108, 97, 116, 105, 111, 110, 84, 101, 110, 117, 116, 111>>, \* articulationTenuto
          Def(Str("[U+E4A4]"), Bool(TRUE), Bool(TRUE), Arr(<<<<97, 114, 116, 105, 99, 84, 101, 110, 117, 116, 111, 65, 98, 111, 118, 101>>, <<97, 114, 116, 105, 99, 84, 101, 110, 117, 116, 111, 66, 101, 108, 111, 119>>>>), Undefined, Undefined, Undefined)),
    Entry(<<97, 114, 116, 105, 99, 65, 99, 99, 101, 110, 116, 65, 98, 111, 118, 101>>, \* articAccentAbove
          Def(Str("[U+E4A0]"), Undefined, Undefined, Undefined, Undefined, Undefined, Undefined)),
    Entry(<<97, 114, 116, 105, 99, 65, 99, 99, 101, 110, 116, 66, 101, 108, 111, 119>>, \* articAccentBelow
          Def(Str("[U+E4A1]"), Undefined, Undefined, Undefined, Undefined, Undefined, Undefined)),
    Entry(<<97, 114, 116, 105, 99, 83, 116, 97, 99, 99, 97, 116, 111, 65, 98, 111, 118, 101>>, \* articStaccatoAbove
          Def(Str("[U+E4A2]"), Undefined, Undefined, Undefined, Undefined, Undefined, Undefined)),
    Entry(<<97, 114, 116, 105, 99, 83, 116, 97, 99, 99, 97, 116, 111, 66, 101, 108, 111, 119>>, \* articStaccatoBelow
          Def(Str("[U+E4A3]"), Undefined, Undefined, Undefined, Undefined, Undefined, Undefined)),
    Entry(<<97, 114, 116, 105, 99, 84, 101, 110, 117, 116, 111, 65, 98, 111, 118, 101>>, \* articTenutoAbove
          Def(Str("[U+E4A4]"), Undefined, Undefined, Undefined, Undefined, Undefined, Undefined)),
    Entry(<<97, 114, 116, 105, 99, 84, 101, 110, 117, 116, 111, 66, 101, 108, 111, 119>>, \* articTenutoBelow
          Def(Str("[U+E4A5]"), Undefined, Undefined, Undefined, Undefined, Undefined, Undefined)),
    Entry(<<97, 114, 116, 105, 99, 83, 116, 97, 99, 99, 97, 116, 105, 115, 115, 105, 109, 111, 65, 98, 111, 118, 101>>, \* articStaccatissimoAbove
          Def(Str("[U+E4A6]"), Undefined, Undefined, Undefined, Undefined, Undefined, Undefined)),
    Entry(<<97, 114, 116, 105, 99, 83, 116, 97, 99, 99, 97, 116, 105, 115, 115, 105, 109, 111, 66, 101, 108, 111, 119>>, \* articStaccatissimoBelow
          Def(Str("[U+E4A7]"), Undefined, Undefined, Undefined, Undefined, Undefined, Undefined)),
    Entry(<<97, 114, 116, 105, 99, 77, 97, 114, 99, 97, 116, 111, 65, 98, 111, 118, 101>>, \* articMarcatoAbove
          Def(Str("[U+E4AC]"), Undefined, Undefined, Undefined, Undefined, Undefined, Undefined)),
    Entry(<<97, 114, 116, 105, 99, 77, 97, 114, 99, 97, 116, 111, 66, 101, 108, 111, 119>>, \* articMarcatoBelow
          Def(Str("[U+E4AD]"), Undefined, Undefined, Undefined, Undefined, Undefined, Undefined)),
    Entry(<<98, 114, 101, 97, 116, 104, 77, 97, 114, 107>>, \* breathMark
          Def(Str("[U+E4CE]"), Bool(TRUE), Bool(TRUE), Arr(<<<<98, 114, 101, 97, 116, 104, 77, 97, 114, 107, 67, 111, 109, 109, 97>>, <<98, 114, 101, 97, 116, 104, 77, 97, 114, 107, 84, 105, 99, 107>>, <<98, 114, 101, 97, 116, 104, 77, 97, 114, 107, 85, 112, 98, 111, 119>>>>), Undefined, Undefined, Undefined)),
    Entry(<<102, 101, 114, 109, 97, 116, 97, 65, 98, 111, 118, 101>>, \* fermataAbove
          Def(Str("[U+E4C0]"), Bool(TRUE), Undefined, Undefined, Undefined, Undefined, Undefined)),
    Entry(<<102, 101, 114, 109, 97, 116, 97, 66, 101, 108, 111, 119>>, \* fermataBelow
          Def(Str("[U+E4C1]"), Bool(TRUE), Undefined, Undefined, Undefined, Undefined, Undefined)),
    Entry(<<98, 114, 101, 97, 116, 104, 77, 97, 114, 107, 67, 111, 109, 109, 97>>, \* breathMarkComma
          Def(Str("[U+E4CE]"), Undefined, Undefined, Undefined, Undefined, Undefined, Undefined)),
    Entry(<<98, 114, 101, 97, 116, 104, 77, 97, 114, 107, 84, 105, 99, 107>>, \* breathMarkTick
          Def(Str("[U+E4CF]"), Undefined, Undefined, Undefined, Undefined, Undefined, Undefined)),
    Entry(<<98, 114, 101, 97, 116, 104, 77, 97, 114, 107, 85, 112, 98, 111, 119>>, \* breathMarkUpbow
          Def(Str("[U+E4D0]"), Undefined, Undefined, Undefined, Undefined, Undefined, Undefined)),
    Entry(<<99, 97, 101, 115, 117, 114, 97>>, \* caesura
          Def(Str("[U+E4D1]"), Undefined, Undefined, Undefined, Undefined, Undefined, Undefined)),
    Entry(<<114, 101, 115, 116, 76, 111, 110, 103, 97>>, \* restLonga
          Def(Str("[U+E01A][U+00A0][U+00A0][U+E4E1]"), Undefined, Undefined, Undefined, Undefined, Undefined, Undefined)),
    Entry(<<114, 101, 115, 116, 68, 111, 117, 98, 108, 101, 87, 104, 111, 108, 101>>, \* restDoubleWhole
          Def(Str("[U+E01A][U+00A0][U+00A0][U+E4E2]"), Undefined, Undefined, Undefined, Undefined, Undefined, Undefined)),
    Entry(<<114, 101, 115, 116, 66, 114, 101, 118, 101>>, \* restBreve
          Def(Str("[U+E01A][U+00A0][U+00A0][U+E4E2]"), Undefined, Bool(TRUE), Arr(<<<<114, 101, 115, 116, 68, 111, 117, 98, 108, 101, 87, 104, 111, 108, 101>>>>), Undefined, Undefined, Undefined)),
    Entry(<<114, 101, 115, 116, 87, 104, 111, 108, 101>>, \* restWhole
          Def(Str("[U+E01A][U+00A0][U+00A0][U+E4E3]"), Bool(TRUE), Undefined, Undefined, Undefined, Undefined, Undefined)),
    Entry(<<114, 101, 115, 116, 83, 101, 109, 105, 98, 114, 101, 118, 101>>, \* restSemibreve
          Def(Str("[U+E01A][U+00A0][U+00A0][U+E4E3]"), Undefined, Bool(TRUE), Arr(<<<<114, 101, 115, 116, 87, 104, 111, 108, 101>>>>), Undefined, Undefined, Undefined)),
    Entry(<<114, 101, 115, 116, 72, 97, 108, 102>>, \* restHalf
          Def(Str("[U+E01A][U+00A0][U+00A0][U+E4E4]"), Bool(TRUE), Undefined, Undefined, Undefined, Undefined, Undefined)),
    Entry(<<114, 101, 115, 116, 77, 105, 110, 105, 109>>, \* restMinim
          Def(Str("[U+E01A][U+00A0][U+00A0][U+E4E4]"), Undefined, Bool(TRUE), Arr(<<<<114, 101, 115, 116, 72, 97, 108, 102>>>>), Undefined, Undefined, Undefined)),
    Entry(<<114, 101, 115, 116, 81, 117, 97, 114, 116, 101, 114>>, \* restQuarter
          Def(Str("[U+E4E5]"), Bool(TRUE), Undefined, Undefined, Undefined, Undefined, Undefined)),
    Entry(<<114, 101, 115, 116, 67, 114, 111, 116, 99, 104, 101, 116>>, \* restCrotchet
          Def(Str("[U+E4E5]"), Undefined, Bool(TRUE), Arr(<<<<114, 101, 115, 116, 81, 117, 97, 114, 116, 101, 114>>>>), Undefined, Undefined, Undefined)),
    Entry(<<114, 101, 115, 116, 56, 116, 104>>, \* rest8th
          Def(Str("[U+E4E6]"), Bool(TRUE), Undefined, Undefined, Undefined, Undefined, Undefined)),
    Entry(<<114, 101, 115, 116, 81, 117, 97, 118, 101, 114>>, \* restQuaver
          Def(Str("[U+E4E6]"), Undefined, Bool(TRUE), Arr(<<<<114, 101, 115, 116, 56, 116, 104>>>>), Undefined, Undefined, Undefined)),
    Entry(<<114, 101, 115, 116, 49, 54, 116, 104>>, \* rest16th
          Def(Str("[U+E4E7]"), Bool(TRUE), Undefined, Undefined, Undefined, Undefined, Undefined)),
    Entry(<<114, 101, 115, 116, 83, 101, 109, 105, 113, 117, 97, 118, 101, 114>>, \* restSemiquaver
          Def(Str("[U+E4E7]"), Undefined, Bool(TRUE), Arr(<<<<114, 101, 115, 116, 49, 54, 116, 104>>>>), Undefined, Undefined, Undefined)),
    Entry(<<114, 101, 115, 116, 51, 50, 110, 100>>, \* rest32nd
          Def(Str("[U+E4E8]"), Bool(TRUE), Undefined, Undefined, Undefined, Undefined, Undefined)),
    Entry(<<114, 101, 115, 116, 68, 101, 109, 105, 115, 101, 109, 105, 113, 117, 97, 118, 101, 114>>, \* restDemisemiquaver
          Def(Str("[U+E4E8]"), Undefined, Bool(TRUE), Arr(<<<<114, 101, 115, 116, 51, 50, 110, 100>>>>), Undefined, Undefined, Undefined)),
    Entry(<<114, 101, 115, 116, 54, 52, 116, 104>>, \* rest64th
          Def(Str("[U+E4E9]"), Bool(TRUE), Undefined, Undefined, Undefined, Undefined, Undefined)),
    Entry(<<114, 101, 115, 116, 49, 50, 56, 116, 104>>, \* rest128th
          Def(Str("[U+E4EA]"), Undefined, Undefined, Undefined, Undefined, Undefined, Undefined)),
    Entry(<<114, 101, 115, 116, 50, 53, 54, 116, 104>>, \* rest256th
          Def(Str("[U+E4EB]"), Undefined, Undefined, Undefined, Undefined, Undefined, Undefined)),
    Entry(<<114, 101, 115, 116, 53, 49, 50, 116, 104>>, \* rest512th
          Def(Str("[U+E4EC]"), Undefined, Undefined, Undefined, Undefined, Undefined, Undefined)),
    Entry(<<114, 101, 115, 116, 49, 48, 50, 52, 116, 104>>, \* rest1024th
          Def(Str("[U+E4ED]"), Undefined, Undefined, Undefined, Undefined, Undefined, Undefined)),
    Entry(<<114, 101, 115, 116, 72, 66, 97, 114>>, \* restHBar
          Def(Str("[U+E4EE]"), Undefined, Undefined, Undefined, Undefined, Undefined, Undefined)),
    Entry(<<114, 101, 115, 116, 84, 101, 120, 116>>, \* restText
          Def(Str("R"), Undefined, Bool(TRUE), Undefined, Undefined, Undefined, Bool(TRUE))),
    Entry(<<109, 117, 108, 116, 105, 77, 101, 97, 115, 117, 114, 101, 82, 101, 115, 116>>, \* multiMeasureRest
          Def(Str("[U+E4EE]"), Bool(TRUE), Bool(TRUE), Arr(<<<<114, 101, 115, 116, 72, 66, 97, 114>>>>), Undefined, Undefined, Undefined)),
    Entry(<<114, 101, 112, 101, 97, 116, 49, 66, 97, 114>>, \* repeat1Bar
          Def(Str("[U+E500]"), Bool(TRUE), Undefined, Undefined, Undefined, Undefined, Undefined)),
    Entry(<<114, 101, 112, 101, 97, 116, 79, 110, 101, 66, 97, 114>>, \* repeatOneBar
          Def(Str("[U+E500]"), Undefined, Bool(TRUE), Arr(<<<<114, 101, 112, 101, 97, 116, 49, 66, 97, 114>>>>), Undefined, Undefined, Undefined)),
    Entry(<<114, 101, 112, 101, 97, 116, 50, 66, 97, 114, 115>>, \* repeat2Bars
          Def(Str("[U+E501]"), Undefined, Undefined, Undefined, Undefined, Undefined, Undefined)),
    Entry(<<114, 101, 112, 101, 97, 116, 52, 66, 97, 114, 115>>, \* repeat4Bars
          Def(Str("[U+E502]"), Undefined, Undefined, Undefined, Undefined, Undefined, Undefined)),
    Entry(<<114, 101, 112, 101, 97, 116, 66, 97, 114, 85, 112, 112, 101, 114, 68, 111, 116>>, \* repeatBarUpperDot
          Def(Str("[U+E503]"), Undefined, Undefined, Undefined, Undefined, Undefined, Undefined)),
    Entry(<<114, 101, 112, 101, 97, 116, 66, 97, 114, 83, 108, 97, 115, 104>>, \* repeatBarSlash
          Def(Str("[U+E504]"), Undefined, Undefined, Undefined, Undefined, Undefined, Undefined)),
    Entry(<<114, 101, 112, 101, 97, 116, 66, 97, 114, 76, 111, 119, 101, 114, 68, 111, 116>>, \* repeatBarLowerDot
          Def(Str("[U+E505]"), Undefined, Undefined, Undefined, Undefined, Undefined, Undefined)),
    Entry(<<117, 110, 105, 115, 111, 110, 111, 84, 101, 120, 116>>, \* unisonoText
          Def(Str("col."), Undefined, Bool(TRUE), Undefined, Undefined, Undefined, Bool(TRUE))),
    Entry(<<117, 110, 105, 115, 111, 110, 111, 67, 111, 110, 116, 105, 110, 117, 97, 116, 105, 111, 110>>, \* unisonoContinuation
          Def(Str("[U+E00A]"), Undefined, Bool(TRUE), Undefined, Undefined, Undefined, Undefined)),
    Entry(<<116, 114, 97, 110, 115, 112, 111, 115, 105, 116, 105, 111, 110, 84, 101, 120, 116>>, \* transpositionText
          Def(Str("[U+E510]"), Bool(TRUE), Bool(TRUE), Arr(<<<<111, 116, 116, 97, 118, 97>>>>), Undefined, Undefined, Bool(TRUE))),
    Entry(<<111, 116, 116, 97, 118, 97>>, \* ottava
          Def(Str("[U+E510]"), Undefined, Undefined, Undefined, Undefined, Undefined, Undefined)),
    Entry(<<111, 116, 116, 97, 118, 97, 65, 108, 116, 97>>, \* ottavaAlta
          Def(Str("[U+E511]"), Undefined, Undefined, Undefined, Undefined, Undefined, Undefined)),
    Entry(<<111, 116, 116, 97, 118, 97, 66, 97, 115, 115, 97>>, \* ottavaBassa
          Def(Str("[U+E512]"), Undefined, Undefined, Undefined, Undefined, Undefined, Undefined)),
    Entry(<<111, 116, 116, 97, 118, 97, 66, 97, 115, 115, 97, 66, 97>>, \* ottavaBassaBa
          Def(Str("[U+E513]"), Undefined, Undefined, Undefined, Undefined, Undefined, Undefined)),
    Entry(<<100, 121, 110, 97, 109, 105, 99, 115, 84, 101, 120, 116>>, \* dynamicsText
          Def(Str("[U+E52D]"), Bool(TRUE), Bool(TRUE), Undefined, Bool(TRUE), Undefined, Bool(TRUE))),
    Entry(<<100, 121, 110, 97, 109, 105, 99, 80, 105, 97, 110, 111>>, \* dynamicPiano
          Def(Str("[U+E520]"), Undefined, Undefined, Undefined, Undefined, Undefined, Undefined)),
    Entry(<<100, 121, 110, 97, 109, 105, 99, 77, 101, 122, 122, 111>>, \* dynamicMezzo
          Def(Str("[U+E521]"), Undefined, Undefined, Undefined, Undefined, Undefined, Undefined)),
    Entry(<<100, 121, 110, 97, 109, 105, 99, 70, 111, 114, 116, 101>>, \* dynamicForte
          Def(Str("[U+E522]"), Undefined, Undefined, Undefined, Undefined, Undefined, Undefined)),
    Entry(<<100, 121, 110, 97, 109, 105, 99, 82, 105, 110, 102, 111, 114, 122, 97, 110, 100, 111>>, \* dynamicRinforzando
          Def(Str("[U+E523]"), Undefined, Undefined, Undefined, Undefined, Undefined, Undefined)),
    Entry(<<100, 121, 110, 97, 109, 105, 99, 83, 102, 111, 114, 122, 97, 110, 100, 111>>, \* dynamicSforzando
          Def(Str("[U+E524]"), Undefined, Undefined, Undefined, Undefined, Undefined, Undefined)),
    Entry(<<100, 121, 110, 97, 109, 105, 99, 90>>, \* dynamicZ
          Def(Str("[U+E525]"), Undefined, Undefined, Undefined, Undefined, Undefined, Undefined)),
    Entry(<<100, 121, 110, 97, 109, 105, 99, 78, 105, 101, 110, 116, 101>>, \* dynamicNiente
          Def(Str("[U+E526]"), Undefined, Undefined, Undefined, Undefined, Undefined, Undefined)),
    Entry(<<100, 121, 110, 97, 109, 105, 99, 67, 114, 101, 115, 99, 101, 110, 100, 111>>, \* dynamicCrescendo
          Def(Str("cres."), Undefined, Bool(TRUE), Undefined, Undefined, Undefined, Bool(TRUE))),
    Entry(<<100, 121, 110, 97, 109, 105, 99, 67, 114, 101, 115, 99, 101, 110, 100, 111, 83, 112, 97, 110, 110, 101, 114>>, \* dynamicCrescendoSpanner
          Def(Str("_[U+00A0]_"), Undefined, Bool(TRUE), Undefined, Undefined, Str("Cannot be rendered using a font"), Undefined)),
    Entry(<<100, 121, 110, 97, 109, 105, 99, 68, 105, 109, 105, 110, 117, 101, 110, 100, 111>>, \* dynamicDiminuendo
          Def(Str("dim."), Undefined, Bool(TRUE), Undefined, Undefined, Undefined, Bool(TRUE))),
    Entry(<<100, 121, 110, 97, 109, 105, 99, 68, 105, 109, 105, 110, 117, 101, 110, 100, 111, 83, 112, 97, 110, 110, 101, 114>>, \* dynamicDiminuendoSpanner
          Def(Str("_[U+00A0]_"), Undefined, Bool(TRUE), Undefined, Undefined, Str("Cannot be rendered using a font"), Undefined)),
    Entry(<<100, 121, 110, 97, 109, 105, 99, 67, 114, 101, 115, 99, 101, 110, 100, 111, 72, 97, 105, 114, 112, 105, 110>>, \* dynamicCrescendoHairpin
          Def(Str("[U+E53E]"), Bool(TRUE), Undefined, Undefined, Undefined, Undefined, Undefined)),
    Entry(<<100, 121, 110, 97, 109, 105, 99, 68, 105, 109, 105, 110, 117, 101, 110, 100, 111, 72, 97, 105, 114, 112, 105, 110>>, \* dynamicDiminuendoHairpin
          Def(Str("[U+E53F]"), Bool(TRUE), Undefined, Undefined, Undefined, Undefined, Undefined)),
    Entry(<<100, 121, 110, 97, 109, 105, 99, 78, 105, 101, 110, 116, 101, 70, 111, 114, 72, 97, 105, 114, 112, 105, 110>>, \* dynamicNienteForHairpin
          Def(Str("[U+E541]"), Undefined, Undefined, Undefined, Undefined, Undefined, Undefined)),
    Entry(<<100, 121, 110, 97, 109, 105, 99, 76, 101, 116, 116, 101, 114, 70>>, \* dynamicLetterF
          Def(Str("[U+E522]"), Bool(TRUE), Bool(TRUE), Arr(<<<<100, 121, 110, 97, 109, 105, 99, 70, 111, 114, 116, 101>>>>), Undefined, Undefined, Undefined)),
    Entry(<<100, 121, 110, 97, 109, 105, 99, 76, 101, 116, 116, 101, 114, 77>>, \* dynamicLetterM
          Def(Str("[U+E521]"), Bool(TRUE), Bool(TRUE), Arr(<<<<100, 121, 110, 97, 109, 105, 99, 77, 101, 122, 122, 111>>>>), Undefined, Undefined, Undefined)),
    Entry(<<100, 121, 110, 97, 109, 105, 99, 76, 101, 116, 116, 101, 114, 78>>, \* dynamicLetterN
          Def(Str("[U+E526]"), Bool(TRUE), Bool(TRUE), Arr(<<<<100, 121, 110, 97, 109, 105, 99, 78, 105, 101, 110, 116, 101>>>>), Undefined, Undefined, Undefined)),
    Entry(<<100, 121, 110, 97, 109, 105, 99, 76, 101, 116, 116, 101, 114, 80>>, \* dynamicLetterP
          Def(Str("[U+E520]"), Bool(TRUE), Bool(TRUE), Arr(<<<<100, 121, 110, 97, 109, 105, 99, 80, 105, 97, 110, 111>>>>), Undefined, Undefined, Undefined)),
    Entry(<<100, 121, 110, 97, 109, 105, 99, 76, 101, 116, 116, 101, 114, 82>>, \* dynamicLetterR
          Def(Str("[U+E523]"), Bool(TRUE), Bool(TRUE), Arr(<<<<100, 121, 110, 97, 109, 105, 99, 82, 105, 110, 102, 111, 114, 122, 97, 110, 100, 111>>>>), Undefined, Undefined, Undefined)),
    Entry(<<100, 121, 110, 97, 109, 105, 99, 76, 101, 116, 116, 101, 114, 83>>, \* dynamicLetterS
          Def(Str("[U+E524]"), Bool(TRUE), Bool(TRUE), Arr(<<<<100, 121, 110, 97, 109, 105, 99, 83, 102, 111, 114, 122, 97, 110, 100, 111>>>>), Undefined, Undefined, Undefined)),
    Entry(<<100, 121, 110, 97, 109, 105, 99, 76, 101, 116, 116, 101, 114, 90>>, \* dynamicLetterZ
          Def(Str("[U+E525]"), Bool(TRUE), Bool(TRUE), Arr(<<<<100, 121, 110, 97, 109, 105, 99, 90>>>>), Undefined, Undefined, Undefined)),
    Entry(<<108, 121, 114, 105, 99, 115, 84, 101, 120, 116>>, \* lyricsText
          Def(Str("ly"), Bool(TRUE), Bool(TRUE), Undefined, Undefined, Undefined, Bool(TRUE))),
    Entry(<<118, 101, 114, 115, 101, 78, 117, 109, 98, 101, 114>>, \* verseNumber
          Def(Str("1."), Undefined, Bool(TRUE), Undefined, Undefined, Undefined, Bool(TRUE))),
    Entry(<<108, 121, 114, 105, 99, 115, 85, 110, 105, 115, 111, 110, 111>>, \* lyricsUnisono
          Def(Str("[U+E00A]"), Undefined, Bool(TRUE), Undefined, Undefined, Undefined, Undefined)),
    Entry(<<116, 101, 109, 112, 111, 84, 101, 120, 116>>, \* tempoText
          Def(Str("te"), Bool(TRUE), Bool(TRUE), Undefined, Undefined, Str("Possibly a composite object"), Bool(TRUE))),
    Entry(<<116, 101, 109, 112, 111, 82, 105, 116, 97, 114, 100, 97, 110, 100, 111>>, \* tempoRitardando
          Def(Str("rit."), Bool(FALSE), Bool(TRUE), Undefined, Undefined, Undefined, Bool(TRUE))),
    Entry(<<116, 101, 109, 112, 111, 82, 105, 116, 97, 114, 100, 97, 110, 100, 111, 83, 112, 97, 110, 110, 101, 114>>, \* tempoRitardandoSpanner
          Def(Str("_[U+00A0]_"), Undefined, Bool(TRUE), Undefined, Undefined, Str("Cannot be rendered using a font"), Undefined)),
    Entry(<<116, 101, 109, 112, 111, 65, 99, 99, 101, 108, 101, 114, 97, 110, 100, 111>>, \* tempoAccelerando
          Def(Str("acc."), Bool(FALSE), Bool(TRUE), Undefined, Undefined, Undefined, Bool(TRUE))),
    Entry(<<116, 101, 109, 112, 111, 65, 99, 99, 101, 108, 101, 114, 97, 110, 100, 111, 83, 112, 97, 110, 110, 101, 114>>, \* tempoAccelerandoSpanner
          Def(Str("_[U+00A0]_"), Undefined, Bool(TRUE), Undefined, Undefined, Str("Cannot be rendered using a font"), Undefined)),
    Entry(<<116, 101, 109, 112, 111, 65, 84, 101, 109, 112, 111>>, \* tempoATempo
          Def(Str("a tempo"), Bool(FALSE), Bool(TRUE), Undefined, Undefined, Undefined, Bool(TRUE))),
    Entry(<<105, 110, 116, 101, 114, 112, 114, 101, 116, 97, 116, 105, 111, 110, 84, 101, 120, 116>>, \* interpretationText
          Def(Str("in"), Undefined, Bool(TRUE), Undefined, Undefined, Undefined, Bool(TRUE))),
    Entry(<<109, 101, 116, 97, 100, 97, 116, 97, 84, 101, 120, 116>>, \* metadataText
          Def(Str("M"), Undefined, Bool(TRUE), Undefined, Undefined, Undefined, Bool(TRUE))),
    Entry(<<109, 101, 97, 115, 117, 114, 101, 78, 117, 109, 98, 101, 114>>, \* measureNumber
          Def(Str("mn"), Undefined, Bool(TRUE), Undefined, Undefined, Undefined, Bool(TRUE))),
    Entry(<<112, 97, 103, 101, 78, 117, 109, 98, 101, 114>>, \* pageNumber
          Def(Str("pn"), Undefined, Bool(TRUE), Undefined, Undefined, Undefined, Bool(TRUE))),
    Entry(<<111, 116, 104, 101, 114, 84, 101, 120, 116>>, \* otherText
          Def(Str("T"), Bool(TRUE), Bool(TRUE), Undefined, Undefined, Undefined, Bool(TRUE))),
    Entry(<<111, 114, 110, 97, 109, 101, 110, 116>>, \* ornament
          Def(Str("[U+E56F]"), Bool(TRUE), Bool(TRUE), Undefined, Undefined, Str("Generinc unspecified ornament"), Undefined)),
    Entry(<<103, 114, 97, 99, 101, 78, 111, 116, 101, 83, 108, 97, 115, 104, 83, 116, 101, 109, 85, 112>>, \* graceNoteSlashStemUp
          Def(Str("[U+E560]"), Undefined, Undefined, Undefined, Undefined, Undefined, Undefined)),
    Entry(<<103, 114, 97, 99, 101, 78, 111, 116, 101, 83, 108, 97, 115, 104, 83, 116, 101, 109, 68, 111, 119, 110>>, \* graceNoteSlashStemDown
          Def(Str("[U+E561]"), Undefined, Undefined, Undefined, Undefined, Undefined, Undefined)),
    Entry(<<111, 114, 110, 97, 109, 101, 110, 116, 84, 114, 105, 108, 108>>, \* ornamentTrill
          Def(Str("[U+E566]"), Bool(TRUE), Undefined, Undefined, Undefined, Undefined, Undefined)),
    Entry(<<111, 114, 110, 97, 109, 101, 110, 116, 84, 117, 114, 110>>, \* ornamentTurn
          Def(Str("[U+E567]"), Undefined, Undefined, Undefined, Undefined, Undefined, Undefined)),
    Entry(<<111, 114, 110, 97, 109, 101, 110, 116, 84, 117, 114, 110, 73, 110, 118, 101, 114, 116, 101, 100>>, \* ornamentTurnInverted
          Def(Str("[U+E568]"), Undefined, Undefined, Undefined, Undefined, Undefined, Undefined)),
    Entry(<<111, 114, 110, 97, 109, 101, 110, 116, 84, 117, 114, 110, 83, 108, 97, 115, 104>>, \* ornamentTurnSlash
          Def(Str("[U+E569]"), Undefined, Undefined, Undefined, Undefined, Undefined, Undefined)),
    Entry(<<111, 114, 110, 97, 109, 101, 110, 116, 84, 117, 114, 110, 85, 112>>, \* ornamentTurnUp
          Def(Str("[U+E56A]}"), Undefined, Undefined, Undefined, Undefined, Undefined, Undefined)),
    Entry(<<111, 114, 110, 97, 109, 101, 110, 116, 84, 117, 114, 110, 85, 112, 83>>, \* ornamentTurnUpS
          Def(Str("[U+E56B]"), Undefined, Undefined, Undefined, Undefined, Undefined, Undefined)),
    Entry(<<111, 114, 110, 97, 109, 101, 110, 116, 83, 104, 111, 114, 116, 84, 114, 105, 108, 108>>, \* ornamentShortTrill
          Def(Str("[U+E56C]"), Undefined, Undefined, Undefined, Undefined, Undefined, Undefined)),
    Entry(<<111, 114, 110, 97, 109, 101, 110, 116, 77, 111, 114, 100, 101, 110, 116>>, \* ornamentMordent
          Def(Str("[U+E56D]"), Undefined, Undefined, Undefined, Undefined, Undefined, Undefined)),
    Entry(<<111, 114, 110, 97, 109, 101, 110, 116, 84, 114, 101, 109, 98, 108, 101, 109, 101, 110, 116>>, \* ornamentTremblement
          Def(Str("[U+E56E]"), Undefined, Undefined, Undefined, Undefined, Undefined, Undefined)),
    Entry(<<111, 114, 110, 97, 109, 101, 110, 116, 72, 97, 121, 100, 110>>, \* ornamentHaydn
          Def(Str("[U+E56F]"), Undefined, Undefined, Undefined, Undefined, Undefined, Undefined)),
    Entry(<<97, 114, 112, 101, 103, 103, 105, 111>>, \* arpeggio
          Def(Str("[U+E63C]"), Bool(TRUE), Bool(TRUE), Arr(<<<<97, 114, 112, 101, 103, 103, 105, 97, 116, 111>>>>), Undefined, Undefined, Undefined)),
    Entry(<<97, 114, 112, 101, 103, 103, 105, 97, 116, 111>>, \* arpeggiato
          Def(Str("[U+E63C]"), Undefined, Undefined, Undefined, Undefined, Undefined, Undefined)),
    Entry(<<97, 114, 112, 101, 103, 103, 105, 97, 116, 111, 85, 112>>, \* arpeggiatoUp
          Def(Str("[U+E634]"), Undefined, Undefined, Undefined, Undefined, Undefined, Undefined)),
    Entry(<<97, 114, 112, 101, 103, 103, 105, 97, 116, 111, 68, 111, 119, 110>>, \* arpeggiatoDown
          Def(Str("[U+E635]"), Undefined, Undefined, Undefined, Undefined, Undefined, Undefined)),
    Entry(<<116, 117, 112, 108, 101, 116>>, \* tuplet
          Def(Str("[U+E1F0][U+E201][U+E1F0][U+E202][U+E1F0][U+E203]"), Bool(TRUE), Bool(TRUE), Undefined, Bool(TRUE), Undefined, Undefined)),
    Entry(<<116, 117, 112, 108, 101, 116, 66, 114, 97, 99, 107, 101, 116>>, \* tupletBracket
          Def(Str("[U+E201] [U+E203]"), Bool(TRUE), Bool(TRUE), Undefined, Undefined, Str("Cannot be rendered using a font"), Undefined)),
    Entry(<<116, 117, 112, 108, 101, 116, 48>>, \* tuplet0
          Def(Str("[U+E880]"), Undefined, Undefined, Undefined, Undefined, Undefined, Undefined)),
    Entry(<<116, 117, 112, 108, 101, 116, 49>>, \* tuplet1
          Def(Str("[U+E881]"), Undefined, Undefined, Undefined, Undefined, Undefined, Undefined)),
    Entry(<<116, 117, 112, 108, 101, 116, 50>>, \* tuplet2
          Def(Str("[U+E882]"), Undefined, Undefined, Undefined, Undefined, Undefined, Undefined)),
    Entry(<<116, 117, 112, 108, 101, 116, 51>>, \* tuplet3
          Def(Str("[U+E883]"), Undefined, Undefined, Undefined, Undefined, Undefined, Undefined)),
    Entry(<<116, 117, 112, 108, 101, 116, 52>>, \* tuplet4
          Def(Str("[U+E884]"), Undefined, Undefined, Undefined, Undefined, Undefined, Undefined)),
    Entry(<<116, 117, 112, 108, 101, 116, 53>>, \* tuplet5
          Def(Str("[U+E885]"), Undefined, Undefined, Undefined, Undefined, Undefined, Undefined)),
    Entry(<<116, 117, 112, 108, 101, 116, 54>>, \* tuplet6
          Def(Str("[U+E886]"), Undefined, Undefined, Undefined, Undefined, Undefined, Undefined)),
    Entry(<<116, 117, 112, 108, 101, 116, 55>>, \* tuplet7
          Def(Str("[U+E887]"), Undefined, Undefined, Undefined, Undefined, Undefined, Undefined)),
    Entry(<<116, 117, 112, 108, 101, 116, 56>>, \* tuplet8
          Def(Str("[U+E888]"), Undefined, Undefined, Undefined, Undefined, Undefined, Undefined)),
    Entry(<<116, 117, 112, 108, 101, 116, 57>>, \* tuplet9
          Def(Str("[U+E889]"), Undefined, Undefined, Undefined, Undefined, Undefined, Undefined)),
    Entry(<<116, 117, 112, 108, 101, 116, 67, 111, 108, 111, 110>>, \* tupletColon
          Def(Str("[U+E88A]"), Undefined, Undefined, Undefined, Undefined, Undefined, Undefined)),
    Entry(<<98, 101, 97, 109>>, \* beam
          Def(Str("[U+E1F0][U+E1F2]"), Bool(TRUE), Bool(TRUE), Undefined, Undefined, Str("Cannot be rendered using a font"), Undefined)),
    Entry(<<115, 108, 117, 114>>, \* slur
          Def(Str("[U+E4BB]"), Bool(TRUE), Bool(TRUE), Undefined, Undefined, Str("Cannot be rendered using a font"), Undefined)),
    Entry(<<116, 105, 101>>, \* tie
          Def(Str("[U+E4BB]"), Bool(TRUE), Bool(TRUE), Undefined, Undefined, Str("Cannot be rendered using a font"), Undefined)),
    Entry(<<102, 105, 103, 117, 114, 101, 100, 66, 97, 115, 115, 84, 101, 120, 116>>, \* figuredBassText
          Def(Str("B"), Bool(TRUE), Bool(TRUE), Undefined, Undefined, Str("Possibly a composite object"), Bool(TRUE))),
    Entry(<<119, 105, 103, 103, 108, 101, 84, 114, 105, 108, 108>>, \* wiggleTrill
          Def(Str("[U+EAA4][U+EAA4][U+EAA4]"), Bool(TRUE), Undefined, Undefined, Undefined, Undefined, Undefined)),
    Entry(<<100, 111, 116, 116, 101, 100, 72, 111, 114, 105, 122, 111, 110, 116, 97, 108, 83, 112, 97, 110, 110, 101, 114>>, \* dottedHorizontalSpanner
          Def(Str("_[U+00A0]_"), Bool(TRUE), Undefined, Undefined, Undefined, Undefined, Undefined)),
    Entry(<<104, 111, 114, 105, 122, 111, 110, 116, 97, 108, 83, 112, 97, 110, 110, 101, 114>>, \* horizontalSpanner
          Def(Str("_"), Bool(TRUE), Undefined, Undefined, Undefined, Undefined, Undefined)),
    Entry(<<103, 108, 105, 115, 115, 97, 110, 100, 111>>, \* glissando
          Def(Str("/"), Bool(TRUE), Undefined, Undefined, Undefined, Undefined, Undefined)),
    Entry(<<99, 104, 97, 114, 97, 99, 116, 101, 114, 67, 97, 112, 105, 116, 97, 108, 65>>, \* characterCapitalA
          Def(Str("A"), Bool(TRUE), Bool(TRUE), Undefined, Undefined, Undefined, Undefined)),
    Entry(<<99, 104, 97, 114, 97, 99, 116, 101, 114, 67, 97, 112, 105, 116, 97, 108, 66>>, \* characterCapitalB
          Def(Str("B"), Bool(TRUE), Bool(TRUE), Undefined, Undefined, Undefined, Undefined)),
    Entry(<<99, 104, 97, 114, 97, 99, 116, 101, 114, 67, 97, 112, 105, 116, 97, 108, 67>>, \* characterCapitalC
          Def(Str("C"), Bool(TRUE), Bool(TRUE), Undefined, Undefined, Undefined, Undefined)),
    Entry(<<99, 104, 97, 114, 97, 99, 116, 101, 114, 67, 97, 112, 105, 116, 97, 108, 68>>, \* characterCapitalD
          Def(Str("D"), Bool(TRUE), Bool(TRUE), Undefined, Undefined, Undefined, Undefined)),
    Entry(<<99, 104, 97, 114, 97, 99, 116, 101, 114, 67, 97, 112, 105, 116, 97, 108, 69>>, \* characterCapitalE
          Def(Str("E"), Bool(TRUE), Bool(TRUE), Undefined, Undefined, Undefined, Undefined)),
    Entry(<<99, 104, 97, 114, 97, 99, 116, 101, 114, 67, 97, 112, 105, 116, 97, 108, 70>>, \* characterCapitalF
          Def(Str("F"), Bool(TRUE), Bool(TRUE), Undefined, Undefined, Undefined, Undefined)),
    Entry(<<99, 104, 97, 114, 97, 99, 116, 101, 114, 67, 97, 112, 105, 116, 97, 108, 71>>, \* characterCapitalG
          Def(Str("G"), Bool(TRUE), Bool(TRUE), Undefined, Undefined, Undefined, Undefined)),
    Entry(<<99, 104, 97, 114, 97, 99, 116, 101, 114, 67, 97, 112, 105, 116, 97, 108, 72>>, \* characterCapitalH
          Def(Str("H"), Bool(TRUE), Bool(TRUE), Undefined, Undefined, Undefined, Undefined)),
    Entry(<<99, 104, 97, 114, 97, 99, 116, 101, 114, 67, 97, 112, 105, 116, 97, 108, 73>>, \* characterCapitalI
          Def(Str("I"), Bool(TRUE), Bool(TRUE), Undefined, Undefined, Undefined, Undefined)),
    Entry(<<99, 104, 97, 114, 97, 99, 116, 101, 114, 67, 97, 112, 105, 116, 97, 108, 74>>, \* characterCapitalJ
          Def(Str("J"), Bool(TRUE), Bool(TRUE), Undefined, Undefined, Undefined, Undefined)),
    Entry(<<99, 104, 97, 114, 97, 99, 116, 101, 114, 67, 97, 112, 105, 116, 97, 108, 75>>, \* characterCapitalK
          Def(Str("K"), Bool(TRUE), Bool(TRUE), Undefined, Undefined, Undefined, Undefined)),
    Entry(<<99, 104, 97, 114, 97, 99, 116, 101, 114, 67, 97, 112, 105, 116, 97, 108, 76>>, \* characterCapitalL
          Def(Str("L"), Bool(TRUE), Bool(TRUE), Undefined, Undefined, Undefined, Undefined)),
    Entry(<<99, 104, 97, 114, 97, 99, 116, 101, 114, 67, 97, 112, 105, 116, 97, 108, 77>>, \* characterCapitalM
          Def(Str("M"), Bool(TRUE), Bool(TRUE), Undefined, Undefined, Undefined, Undefined)),
    Entry(<<99, 104, 97, 114, 97, 99, 116, 101, 114, 67, 97, 112, 105, 116, 97, 108, 78>>, \* characterCapitalN
          Def(Str("N"), Bool(TRUE), Bool(TRUE), Undefined, Undefined, Undefined, Undefined)),
    Entry(<<99, 104, 97, 114, 97, 99, 116, 101, 114, 67, 97, 112, 105, 116, 97, 108, 79>>, \* characterCapitalO
          Def(Str("O"), Bool(TRUE), Bool(TRUE), Undefined, Undefined, Undefined, Undefined)),
    Entry(<<99, 104, 97, 114, 97, 99, 116, 101, 114, 67, 97, 112, 105, 116, 97, 108, 80>>, \* characterCapitalP
          Def(Str("P"), Bool(TRUE), Bool(TRUE), Undefined, Undefined, Undefined, Undefined)),
    Entry(<<99, 104, 97, 114, 97, 99, 116, 101, 114, 67, 97, 112, 105, 116, 97, 108, 81>>, \* characterCapitalQ
          Def(Str("Q"), Bool(TRUE), Bool(TRUE), Undefined, Undefined, Undefined, Undefined)),
    Entry(<<99, 104, 97, 114, 97, 99, 116, 101, 114, 67, 97, 112, 105, 116, 97, 108, 82>>, \* characterCapitalR
          Def(Str("R"), Bool(TRUE), Bool(TRUE), Undefined, Undefined, Undefined, Undefined)),
    Entry(<<99, 104, 97, 114, 97, 99, 116, 101, 114, 67, 97, 112, 105, 116, 97, 108, 83>>, \* characterCapitalS
          Def(Str("S"), Bool(TRUE), Bool(TRUE), Undefined, Undefined, Undefined, Undefined)),
    Entry(<<99, 104, 97, 114, 97, 99, 116, 101, 114, 67, 97, 112, 105, 116, 97, 108, 84>>, \* characterCapitalT
          Def(Str("T"), Bool(TRUE), Bool(TRUE), Undefined, Undefined, Undefined, Undefined)),
    Entry(<<99, 104, 97, 114, 97, 99, 116, 101, 114, 67, 97, 112, 105, 116, 97, 108, 85>>, \* characterCapitalU
          Def(Str("U"), Bool(TRUE), Bool(TRUE), Undefined, Undefined, Undefined, Undefined)),
    Entry(<<99, 104, 97, 114, 97, 99, 116, 101, 114, 67, 97, 112, 105, 116, 97, 108, 86>>, \* characterCapitalV
          Def(Str("V"), Bool(TRUE), Bool(TRUE), Undefined, Undefined, Undefined, Undefined)),
    Entry(<<99, 104, 97, 114, 97, 99, 116, 101, 114, 67, 97, 112, 105, 116, 97, 108, 87>>, \* characterCapitalW
          Def(Str("W"), Bool(TRUE), Bool(TRUE), Undefined, Undefined, Undefined, Undefined)),
    Entry(<<99, 104, 97, 114, 97, 99, 116, 101, 114, 67, 97, 112, 105, 116, 97, 108, 88>>, \* characterCapitalX
          Def(Str("X"), Bool(TRUE), Bool(TRUE), Undefined, Undefined, Undefined, Undefined)),
    Entry(<<99, 104, 97, 114, 97, 99, 116, 101, 114, 67, 97, 112, 105, 116, 97, 108, 89>>, \* characterCapitalY
          Def(Str("Y"), Bool(TRUE), Bool(TRUE), Undefined, Undefined, Undefined, Undefined)),
    Entry(<<99, 104, 97, 114, 97, 99, 116, 101, 114, 67, 97, 112, 105, 116, 97, 108, 90>>, \* characterCapitalZ
          Def(Str("Z"), Bool(TRUE), Bool(TRUE), Undefined, Undefined, Undefined, Undefined)),
    Entry(<<99, 104, 97, 114, 97, 99, 116, 101, 114, 83, 109, 97, 108, 108, 65>>, \* characterSmallA
          Def(Str("a"), Bool(TRUE), Bool(TRUE), Undefined, Undefined, Undefined, Undefined)),
    Entry(<<99, 104, 97, 114, 97, 99, 116, 101, 114, 83, 109, 97, 108, 108, 66>>, \* characterSmallB
          Def(Str("b"), Bool(TRUE), Bool(TRUE), Undefined, Undefined, Undefined, Undefined)),
    Entry(<<99, 104, 97, 114, 97, 99, 116, 101, 114, 83, 109, 97, 108, 108, 67>>, \* characterSmallC
          Def(Str("c"), Bool(TRUE), Bool(TRUE), Undefined, Undefined, Undefined, Undefined)),
    Entry(<<99, 104, 97, 114, 97, 99, 116, 101, 114, 83, 109, 97, 108, 108, 68>>, \* characterSmallD
          Def(Str("d"), Bool(TRUE), Bool(TRUE), Undefined, Undefined, Undefined, Undefined)),
    Entry(<<99, 104, 97, 114, 97, 99, 116, 101, 114, 83, 109, 97, 108, 108, 69>>, \* characterSmallE
          Def(Str("e"), Bool(TRUE), Bool(TRUE), Undefined, Undefined, Undefined, Undefined)),
    Entry(<<99, 104, 97, 114, 97, 99, 116, 101, 114, 83, 109, 97, 108, 108, 70>>, \* characterSmallF
          Def(Str("f"), Bool(TRUE), Bool(TRUE), Undefined, Undefined, Undefined, Undefined)),
    Entry(<<99, 104, 97, 114, 97, 99, 116, 101, 114, 83, 109, 97, 108, 108, 71>>, \* characterSmallG
          Def(Str("g"), Bool(TRUE), Bool(TRUE), Undefined, Undefined, Undefined, Undefined)),
    Entry(<<99, 104, 97, 114, 97, 99, 116, 101, 114, 83, 109, 97, 108, 108, 72>>, \* characterSmallH
          Def(Str("h"), Bool(TRUE), Bool(TRUE), Undefined, Undefined, Undefined, Undefined)),
    Entry(<<99, 104, 97, 114, 97, 99, 116, 101, 114, 83, 109, 97, 108, 108, 73>>, \* characterSmallI
          Def(Str("i"), Bool(TRUE), Bool(TRUE), Undefined, Undefined, Undefined, Undefined)),
    Entry(<<99, 104, 97, 114, 97, 99, 116, 101, 114, 83, 109, 97, 108, 108, 74>>, \* characterSmallJ
          Def(Str("j"), Bool(TRUE), Bool(TRUE), Undefined, Undefined, Undefined, Undefined)),
    Entry(<<99, 104, 97, 114, 97, 99, 116, 101, 114, 83, 109, 97, 108, 108, 75>>, \* characterSmallK
          Def(Str("k"), Bool(TRUE), Bool(TRUE), Undefined, Undefined, Undefined, Undefined)),
    Entry(<<99, 104, 97, 114, 97, 99, 116, 101, 114, 83, 109, 97, 108, 108, 76>>, \* characterSmallL
          Def(Str("l"), Bool(TRUE), Bool(TRUE), Undefined, Undefined, Undefined, Undefined)),
    Entry(<<99, 104, 97, 114, 97, 99, 116, 101, 114, 83, 109, 97, 108, 108, 77>>, \* characterSmallM
          Def(Str("m"), Bool(TRUE), Bool(TRUE), Undefined, Undefined, Undefined, Undefined)),
    Entry(<<99, 104, 97, 114, 97, 99, 116, 101, 114, 83, 109, 97, 108, 108, 78>>, \* characterSmallN
          Def(Str("n"), Bool(TRUE), Bool(TRUE), Undefined, Undefined, Undefined, Undefined)),
    Entry(<<99, 104, 97, 114, 97, 99, 116, 101, 114, 83, 109, 97, 108, 108, 79>>, \* characterSmallO
          Def(Str("o"), Bool(TRUE), Bool(TRUE), Undefined, Undefined, Undefined, Undefined)),
    Entry(<<99, 104, 97, 114, 97, 99, 116, 101, 114, 83, 109, 97, 108, 108, 80>>, \* characterSmallP
          Def(Str("p"), Bool(TRUE), Bool(TRUE), Undefined, Undefined, Undefined, Undefined)),
    Entry(<<99, 104, 97, 114, 97, 99, 116, 101, 114, 83, 109, 97, 108, 108, 81>>, \* characterSmallQ
          Def(Str("q"), Bool(TRUE), Bool(TRUE), Undefined, Undefined, Undefined, Undefined)),
    Entry(<<99, 104, 97, 114, 97, 99, 116, 101, 114, 83, 109, 97, 108, 108, 82>>, \* characterSmallR
          Def(Str("r"), Bool(TRUE), Bool(TRUE), Undefined, Undefined, Undefined, Undefined)),
    Entry(<<99, 104, 97, 114, 97, 99, 116, 101, 114, 83, 109, 97, 108, 108, 83>>, \* characterSmallS
          Def(Str("s"), Bool(TRUE), Bool(TRUE), Undefined, Undefined, Undefined, Undefined)),
    Entry(<<99, 104, 97, 114, 97, 99, 116, 101, 114, 83, 109, 97, 108, 108, 84>>, \* characterSmallT
          Def(Str("t"), Bool(TRUE), Bool(TRUE), Undefined, Undefined, Undefined, Undefined)),
    Entry(<<99, 104, 97, 114, 97, 99, 116, 101, 114, 83, 109, 97, 108, 108, 85>>, \* characterSmallU
          Def(Str("u"), Bool(TRUE), Bool(TRUE), Undefined, Undefined, Undefined, Undefined)),
    Entry(<<99, 104, 97, 114, 97, 99, 116, 101, 114, 83, 109, 97, 108, 108, 86>>, \* characterSmallV
          Def(Str("v"), Bool(TRUE), Bool(TRUE), Undefined, Undefined, Undefined, Undefined)),
    Entry(<<99, 104, 97, 114, 97, 99, 116, 101, 114, 83, 109, 97, 108, 108, 87>>, \* characterSmallW
          Def(Str("w"), Bool(TRUE), Bool(TRUE), Undefined, Undefined, Undefined, Undefined)),
    Entry(<<99, 104, 97, 114, 97, 99, 116, 101, 114, 83, 109, 97, 108, 108, 88>>, \* characterSmallX
          Def(Str("x"), Bool(TRUE), Bool(TRUE), Undefined, Undefined, Undefined, Undefined)),
    Entry(<<99, 104, 97, 114, 97, 99, 116, 101, 114, 83, 109, 97, 108, 108, 89>>, \* characterSmallY
          Def(Str("y"), Bool(TRUE), Bool(TRUE), Undefined, Undefined, Undefined, Undefined)),
    Entry(<<99, 104, 97, 114, 97, 99, 116, 101, 114, 83, 109, 97, 108, 108, 90>>, \* characterSmallZ
          Def(Str("z"), Bool(TRUE), Bool(TRUE), Undefined, Undefined, Undefined, Undefined)),
    Entry(<<99, 104, 97, 114, 97, 99, 116, 101, 114, 68, 111, 116>>, \* characterDot
          Def(Str("."), Bool(TRUE), Bool(TRUE), Undefined, Undefined, Undefined, Undefined)),
    Entry(<<99, 104, 97, 114, 97, 99, 116, 101, 114, 79, 116, 104, 101, 114>>, \* characterOther
          Def(Str("$"), Bool(TRUE), Bool(TRUE), Undefined, Undefined, Undefined, Undefined)),
    Entry(<<110, 117, 109, 101, 114, 97, 108, 48>>, \* numeral0
          Def(Str("0"), Bool(TRUE), Bool(TRUE), Undefined, Undefined, Undefined, Undefined)),
    Entry(<<110, 117, 109, 101, 114, 97, 108, 49>>, \* numeral1
          Def(Str("1"), Bool(TRUE), Bool(TRUE), Undefined, Undefined, Undefined, Undefined)),
    Entry(<<110, 117, 109, 101, 114, 97, 108, 50>>, \* numeral2
          Def(Str("2"), Bool(TRUE), Bool(TRUE), Undefined, Undefined, Undefined, Undefined)),
    Entry(<<110, 117, 109, 101, 114, 97, 108, 51>>, \* numeral3
          Def(Str("3"), Bool(TRUE), Bool(TRUE), Undefined, Undefined, Undefined, Undefined)),
    Entry(<<110, 117, 109, 101, 114, 97, 108, 52>>, \* numeral4
          Def(Str("4"), Bool(TRUE), Bool(TRUE), Undefined, Undefined, Undefined, Undefined)),
    Entry(<<110, 117, 109, 101, 114, 97, 108, 53>>, \* numeral5
          Def(Str("5"), Bool(TRUE), Bool(TRUE), Undefined, Undefined, Undefined, Undefined)),
    Entry(<<110, 117, 109, 101, 114, 97, 108, 54>>, \* numeral6
          Def(Str("6"), Bool(TRUE), Bool(TRUE), Undefined, Undefined, Undefined, Undefined)),
    Entry(<<110, 117, 109, 101, 114, 97, 108, 55>>, \* numeral7
          Def(Str("7"), Bool(TRUE), Bool(TRUE), Undefined, Undefined, Undefined, Undefined)),
    Entry(<<110, 117, 109, 101, 114, 97, 108, 56>>, \* numeral8
          Def(Str("8"), Bool(TRUE), Bool(TRUE), Undefined, Undefined, Undefined, Undefined)),
    Entry(<<110, 117, 109, 101, 114, 97, 108, 57>>, \* numeral9
          Def(Str("9"), Bool(TRUE), Bool(TRUE), Undefined, Undefined, Undefined, Undefined)),
    Entry(<<115, 116, 101, 109, 83, 116, 114, 117, 99, 116, 117, 114, 97, 108>>, \* stemStructural
          Def(Str("[U+E210]"), Bool(FALSE), Bool(TRUE), Undefined, Undefined, Undefined, Undefined)),
    Entry(<<115, 116, 101, 109, 83, 116, 114, 117, 99, 116, 117, 114, 97, 108, 80, 97, 114, 116, 105, 97, 108>>, \* stemStructuralPartial
          Def(Str("[U+E210]"), Bool(FALSE), Bool(TRUE), Undefined, Undefined, Undefined, Undefined)),
    Entry(<<115, 116, 101, 109, 83, 116, 114, 117, 99, 116, 117, 114, 97, 108, 66, 114, 105, 100, 103, 101, 76, 101, 102, 116>>, \* stemStructuralBridgeLeft
          Def(Str("[U+2282]"), Bool(FALSE), Bool(TRUE), Undefined, Undefined, Undefined, Undefined)),
    Entry(<<115, 116, 101, 109, 83, 116, 114, 117, 99, 116, 117, 114, 97, 108, 66, 114, 105, 100, 103, 101, 82, 105, 103, 104, 116>>, \* stemStructuralBridgeRight
          Def(Str("[U+2283]"), Bool(FALSE), Bool(TRUE), Undefined, Undefined, Undefined, Undefined)),
    Entry(<<102, 108, 97, 103, 83, 116, 114, 117, 99, 116, 117, 114, 97, 108, 85, 112>>, \* flagStructuralUp
          Def(Str("[U+E1D7]"), Bool(FALSE), Bool(TRUE), Undefined, Undefined, Undefined, Undefined)),
    Entry(<<102, 108, 97, 103, 83, 116, 114, 117, 99, 116, 117, 114, 97, 108, 68, 111, 119, 110>>, \* flagStructuralDown
          Def(Str("[U+E1D8]"), Bool(FALSE), Bool(TRUE), Undefined, Undefined, Undefined, Undefined)),
    Entry(<<115, 108, 117, 114, 83, 116, 114, 117, 99, 116, 117, 114, 97, 108, 68, 111, 119, 110>>, \* slurStructuralDown
          Def(Str("[U+E4BB]"), Bool(FALSE), Bool(TRUE), Undefined, Undefined, Undefined, Undefined)),
    Entry(<<115, 108, 117, 114, 83, 116, 114, 117, 99, 116, 117, 114, 97, 108, 85, 112>>, \* slurStructuralUp
          Def(Str("[U+E4BA]"), Bool(FALSE), Bool(TRUE), Undefined, Undefined, Undefined, Undefined)),
    Entry(<<98, 101, 97, 109, 83, 116, 114, 117, 99, 116, 117, 114, 97, 108>>, \* beamStructural
          Def(Str("[U+E1F0][U+E1F2]"), Bool(FALSE), Bool(TRUE), Undefined, Undefined, Undefined, Undefined)),
    Entry(<<98, 101, 97, 109, 83, 116, 114, 117, 99, 116, 117, 114, 97, 108, 80, 97, 114, 116, 105, 97, 108, 76, 101, 102, 116>>, \* beamStructuralPartialLeft
          Def(Str("[U+E1F0][U+E1F7]"), Bool(FALSE), Bool(TRUE), Undefined, Undefined, Undefined, Undefined)),
    Entry(<<98, 101, 97, 109, 83, 116, 114, 117, 99, 116, 117, 114, 97, 108, 80, 97, 114, 116, 105, 97, 108, 82, 105, 103, 104, 116>>, \* beamStructuralPartialRight
          Def(Str("[U+E1F2]"), Bool(FALSE), Bool(TRUE), Undefined, Undefined, Undefined, Undefined)),
    Entry(<<98, 101, 97, 109, 83, 116, 114, 117, 99, 116, 117, 114, 97, 108, 80, 97, 114, 116, 105, 97, 108, 77, 105, 100, 100, 108, 101>>, \* beamStructuralPartialMiddle
          Def(Str("[U+E1F2][U+E1F7]"), Bool(FALSE), Bool(TRUE), Undefined, Undefined, Undefined, Undefined)),
    Entry(<<98, 101, 97, 109, 83, 116, 114, 117, 99, 116, 117, 114, 97, 108, 66, 114, 105, 100, 103, 101, 85, 112>>, \* beamStructuralBridgeUp
          Def(Str("[U+2229]"), Bool(FALSE), Bool(TRUE), Undefined, Undefined, Undefined, Undefined)),
    Entry(<<98, 101, 97, 109, 83, 116, 114, 117, 99, 116, 117, 114, 97, 108, 66, 114, 105, 100, 103, 101, 68, 111, 119, 110>>, \* beamStructuralBridgeDown
          Def(Str("[U+222A]"), Bool(FALSE), Bool(TRUE), Undefined, Undefined, Undefined, Undefined)),
    Entry(<<98, 101, 97, 109, 83, 116, 114, 117, 99, 116, 117, 114, 97, 108, 85, 110, 102, 111, 108, 100, 105, 110, 103, 68, 111, 119, 110>>, \* beamStructuralUnfoldingDown
          Def(Str("[U+2571]"), Bool(FALSE), Bool(TRUE), Undefined, Undefined, Undefined, Undefined)),
    Entry(<<98, 101, 97, 109, 83, 116, 114, 117, 99, 116, 117, 114, 97, 108, 85, 110, 102, 111, 108, 100, 105, 110, 103, 85, 112>>, \* beamStructuralUnfoldingUp
          Def(Str("[U+2572]"), Bool(FALSE), Bool(TRUE), Undefined, Undefined, Undefined, Undefined)),
    Entry(<<118, 111, 105, 99, 101, 69, 120, 99, 104, 97, 110, 103, 101, 68, 111, 119, 110>>, \* voiceExchangeDown
          Def(Str("[U+2571]"), Bool(FALSE), Bool(TRUE), Undefined, Undefined, Undefined, Undefined)),
    Entry(<<118, 111, 105, 99, 101, 69, 120, 99, 104, 97, 110, 103, 101, 85, 112>>, \* voiceExchangeUp
          Def(Str("[U+2572]"), Bool(FALSE), Bool(TRUE), Undefined, Undefined, Undefined, Undefined)),
    Entry(<<112, 97, 114, 101, 110, 115, 73, 109, 112, 108, 105, 101, 100, 76, 101, 102, 116>>, \* parensImpliedLeft
          Def(Str("("), Bool(FALSE), Bool(TRUE), Undefined, Undefined, Undefined, Undefined)),
    Entry(<<112, 97, 114, 101, 110, 115, 73, 109, 112, 108, 105, 101, 100, 82, 105, 103, 104, 116>>, \* parensImpliedRight
          Def(Str(")"), Bool(FALSE), Bool(TRUE), Undefined, Undefined, Undefined, Undefined)),
    Entry(<<110, 111, 116, 101, 104, 101, 97, 100, 73, 109, 112, 108, 105, 101, 100>>, \* noteheadImplied
          Def(Str("([U+E0A4])"), Bool(FALSE), Bool(TRUE), Undefined, Undefined, Undefined, Undefined)),
    Entry(<<110, 111, 116, 101, 104, 101, 97, 100, 79, 112, 101, 110, 73, 109, 112, 108, 105, 101, 100>>, \* noteheadOpenImplied
          Def(Str("([U+E0A3])"), Bool(FALSE), Bool(TRUE), Undefined, Undefined, Undefined, Undefined)),
    Entry(<<115, 99, 97, 108, 101, 68, 101, 103, 114, 101, 101, 77, 97, 114, 107>>, \* scaleDegreeMark
          Def(Str("^"), Bool(FALSE), Bool(TRUE), Undefined, Undefined, Undefined, Undefined)),
    Entry(<<99, 104, 97, 114, 97, 99, 116, 101, 114, 67, 111, 108, 111, 110, 68, 111, 116, 85, 112, 112, 101, 114>>, \* characterColonDotUpper
          Def(Str("[U+00B7]"), Bool(FALSE), Bool(TRUE), Undefined, Undefined, Undefined, Undefined)),
    Entry(<<99, 104, 97, 114, 97, 99, 116, 101, 114, 67, 111, 108, 111, 110, 68, 111, 116, 76, 111, 119, 101, 114>>, \* characterColonDotLower
          Def(Str("[U+00B7]"), Bool(FALSE), Bool(TRUE), Undefined, Undefined, Undefined, Undefined)),
    Entry(<<99, 104, 97, 114, 97, 99, 116, 101, 114, 69, 120, 99, 108, 97, 109, 97, 116, 105, 111, 110>>, \* characterExclamation
          Def(Str("!"), Bool(FALSE), Bool(TRUE), Undefined, Undefined, Undefined, Undefined)),
    Entry(<<99, 104, 97, 114, 97, 99, 116, 101, 114, 72, 121, 112, 104, 101, 110>>, \* characterHyphen
          Def(Str("[U+E090]"), Bool(FALSE), Bool(TRUE), Undefined, Undefined, Undefined, Undefined)),
    Entry(<<99, 104, 97, 114, 97, 99, 116, 101, 114, 69, 113, 117, 97, 108>>, \* characterEqual
          Def(Str("[U+E08F]"), Bool(FALSE), Bool(TRUE), Undefined, Undefined, Undefined, Undefined)),
    Entry(<<98, 114, 97, 99, 101, 65, 110, 97, 108, 121, 116, 105, 99, 97, 108>>, \* braceAnalytical
          Def(Str("[U+007B]"), Bool(FALSE), Bool(TRUE), Undefined, Undefined, Undefined, Undefined)),
    Entry(<<98, 97, 114, 108, 105, 110, 101, 83, 116, 114, 117, 99, 116, 117, 114, 97, 108, 68, 111, 116, 116, 101, 100>>, \* barlineStructuralDotted
          Def(Str("[U+250A]"), Bool(FALSE), Bool(TRUE), Undefined, Undefined, Undefined, Undefined)),
    Entry(<<98, 97, 114, 108, 105, 110, 101, 83, 116, 114, 117, 99, 116, 117, 114, 97, 108, 68, 111, 116, 116, 101, 100, 80, 97, 114, 116, 105, 97, 108>>, \* barlineStructuralDottedPartial
          Def(Str("[U+2502]"), Bool(FALSE), Bool(TRUE), Undefined, Undefined, Undefined, Undefined)),
    Entry(<<107, 101, 121, 65, 110, 97, 108, 121, 115, 105, 115>>, \* keyAnalysis
          Def(Str("Gm:"), Bool(FALSE), Bool(TRUE), Undefined, Undefined, Undefined, Undefined)),
    Entry(<<97, 110, 97, 108, 121, 116, 105, 99, 97, 108, 73>>, \* analyticalI
          Def(Str("[U+2160]"), Bool(FALSE), Bool(TRUE), Undefined, Undefined, Undefined, Undefined)),
    Entry(<<97, 110, 97, 108, 121, 116, 105, 99, 97, 108, 73, 73>>, \* analyticalII
          Def(Str("[U+2161]"), Bool(FALSE), Bool(TRUE), Undefined, Undefined, Undefined, Undefined)),
    Entry(<<97, 110, 97, 108, 121, 116, 105, 99, 97, 108, 73, 73, 73>>, \* analyticalIII
          Def(Str("[U+2162]"), Bool(FALSE), Bool(TRUE), Undefined, Undefined, Undefined, Undefined)),
    Entry(<<97, 110, 97, 108, 121, 116, 105, 99, 97, 108, 73, 86>>, \* analyticalIV
          Def(Str("[U+2163]"), Bool(FALSE), Bool(TRUE), Undefined, Undefined, Undefined, Undefined)),
    Entry(<<97, 110, 97, 108, 121, 116, 105, 99, 97, 108, 86>>, \* analyticalV
          Def(Str("[U+2164]"), Bool(FALSE), Bool(TRUE), Undefined, Undefined, Undefined, Undefined)),
    Entry(<<97, 110, 97, 108, 121, 116, 105, 99, 97, 108, 86, 73>>, \* analyticalVI
          Def(Str("[U+2165]"), Bool(FALSE), Bool(TRUE), Undefined, Undefined, Undefined, Undefined)),
    Entry(<<97, 110, 97, 108, 121, 116, 105, 99, 97, 108, 86, 73, 73>>, \* analyticalVII
          Def(Str("[U+2166]"), Bool(FALSE), Bool(TRUE), Undefined, Undefined, Undefined, Undefined)),
    Entry(<<110, 117, 109, 101, 114, 97, 108, 82, 111, 109, 97, 110, 73>>, \* numeralRomanI
          Def(Str("[U+2160]"), Bool(FALSE), Bool(TRUE), Undefined, Undefined, Undefined, Undefined)),
    Entry(<<110, 117, 109, 101, 114, 97, 108, 82, 111, 109, 97, 110, 73, 73>>, \* numeralRomanII
          Def(Str("[U+2161]"), Bool(FALSE), Bool(TRUE), Undefined, Undefined, Undefined, Undefined)),
    Entry(<<110, 117, 109, 101, 114, 97, 108, 82, 111, 109, 97, 110, 73, 73, 73>>, \* numeralRomanIII
          Def(Str("[U+2162]"), Bool(FALSE), Bool(TRUE), Undefined, Undefined, Undefined, Undefined)),
    Entry(<<110, 117, 109, 101, 114, 97, 108, 82, 111, 109, 97, 110, 73, 86>>, \* numeralRomanIV
          Def(Str("[U+2163]"), Bool(FALSE), Bool(TRUE), Undefined, Undefined, Undefined, Undefined)),
    Entry(<<110, 117, 109, 101, 114, 97, 108, 82, 111, 109, 97, 110, 86>>, \* numeralRomanV
          Def(Str("[U+2164]"), Bool(FALSE), Bool(TRUE), Undefined, Undefined, Undefined, Undefined)),
    Entry(<<110, 117, 109, 101, 114, 97, 108, 82, 111, 109, 97, 110, 86, 73>>, \* numeralRomanVI
          Def(Str("[U+2165]"), Bool(FALSE), Bool(TRUE), Undefined, Undefined, Undefined, Undefined)),
    Entry(<<110, 117, 109, 101, 114, 97, 108, 82, 111, 109, 97, 110, 86, 73, 73>>, \* numeralRomanVII
          Def(Str("[U+2166]"), Bool(FALSE), Bool(TRUE), Undefined, Undefined, Undefined, Undefined)),
    Entry(<<115, 101, 99, 111, 110, 100, 97, 114, 121, 72, 97, 114, 109, 111, 110, 121, 65, 114, 114, 111, 119, 82, 105, 103, 104, 116>>, \* secondaryHarmonyArrowRight
          Def(Str("[U+21BA]"), Bool(FALSE), Bool(TRUE), Undefined, Undefined, Undefined, Undefined)),
    Entry(<<115, 101, 99, 111, 110, 100, 97, 114, 121, 72, 97, 114, 109, 111, 110, 121, 65, 114, 114, 111, 119, 76, 101, 102, 116>>, \* secondaryHarmonyArrowLeft
          Def(Str("[U+21BB]"), Bool(FALSE), Bool(TRUE), Undefined, Undefined, Undefined, Undefined)),
    Entry(<<99, 105, 114, 99, 108, 101, 69, 109, 112, 104, 97, 115, 105, 115>>, \* circleEmphasis
          Def(Str("[U+25EF]"), Bool(FALSE), Bool(TRUE), Undefined, Undefined, Undefined, Undefined)),
    Entry(<<99, 105, 114, 99, 108, 101, 77, 101, 97, 115, 117, 114, 101, 78, 117, 109, 98, 101, 114>>, \* circleMeasureNumber
          Def(Str("[U+25CB]"), Bool(FALSE), Bool(TRUE), Undefined, Undefined, Undefined, Undefined))
  >>

(***************************************************************************)
(* Built-ins the module uses.                                              *)
(***************************************************************************)
\* Object.keys(table): the own enumerable string keys, in property order.
ObjectKeys(table) == [i \in 1..Len(table) |-> table[i].key]

\* table[key]: the value of the own property key (every key asked for is one).
GetDef(table, key) ==
  (CHOOSE e \in {table[i] : i \in 1..Len(table)} : e.key = key).def

\* x < y for strings: lexicographic comparison of UTF-16 code units.
RECURSIVE StringLess(_, _)
StringLess(x, y) ==
  IF x = <<>> THEN y # <<>>
  ELSE IF y = <<>> THEN FALSE
  ELSE IF Head(x) # Head(y) THEN Head(x) < Head(y)
  ELSE StringLess(Tail(x), Tail(y))

\* The position each element of a takes in ascending order, ties in index order.
SortPosition(a) ==
  [j \in 1..Len(a) |->
     1 + Cardinality({k \in 1..Len(a) :
                        \/ StringLess(a[k], a[j])
                        \/ a[k] = a[j] /\ k < j})]

\* Array.prototype.sort() without a comparator, on an array of strings:
\* ascending by code units, stable.  (The one-element sets bind the array and
\* the positions once, so that TLC computes each a single time.)
ArraySort(arr) ==
  LET Placed(a, position) ==
        [i \in 1..Len(a) |-> a[CHOOSE j \in 1..Len(a) : position[j] = i]]
  IN  CHOOSE sorted \in
        UNION {{Placed(a, position) : position \in {SortPosition(a)}} : a \in {arr}} :
        TRUE

(***************************************************************************)
(* function parseMungClassDefinition(className, def): MungClass            *)
(***************************************************************************)
\* Variant: construction rejects an unjustified divergence by throwing.
parseThrows_rejectsUnjustified(def) ==
  \/ def.t \in {"null", "undefined"}
  \/ /\ ToBoolean(def.notSmufl)
     /\ ~ToBoolean(def.container)
     /\ def.transcribable # Bool(TRUE)
     /\ def.otherSmuflDivergenceJustification = Undefined

\* Reading a property of null or undefined throws a TypeError.
parseThrows(def) == def.t \in {"null", "undefined"}

\* Variant: only the boolean true marks a class as not aligned.
isSmuflOf_onlyTrue(def) == def.notSmufl # Bool(TRUE)

isSmuflOf(def) == ~ToBoolean(def.notSmufl)

isContainerOf(def) == ToBoolean(def.container)

\* Variant: the justification is tested for truthiness, not for presence.
justifiedSmuflDivergenceOf_truthyJustification(def) ==
  IF isSmuflOf(def)
  THEN Undefined
  ELSE Bool(\/ isContainerOf(def)
            \/ def.transcribable = Bool(TRUE)
            \/ ToBoolean(def.otherSmuflDivergenceJustification))

\* Variant: the verdict is computed for standard-aligned classes too.
justifiedSmuflDivergenceOf_unconditional(def) ==
  Bool(\/ isContainerOf(def)
       \/ def.transcribable = Bool(TRUE)
       \/ def.otherSmuflDivergenceJustification # Undefined)

justifiedSmuflDivergenceOf(def) ==
  IF isSmuflOf(def)
  THEN Undefined
  ELSE Bool(\/ isContainerOf(def)
            \/ def.transcribable = Bool(TRUE)
            \/ def.otherSmuflDivergenceJustification # Undefined)

\* Variant: mpp is copied as it is, without the !! that defaults it.
parseMungClassDefinition_rawMpp(className, def) ==
  [className |-> className,
   unicode |-> def.uc,
   isSmufl |-> Bool(isSmuflOf(def)),
   smuflEquivalents |-> def.smuflEquivalents,
   isMuscimaPP20 |-> def.mpp,
   isContainer |-> Bool(isContainerOf(def)),
   otherSmuflDivergenceJustification |-> def.otherSmuflDivergenceJustification,
   justifiedSmuflDivergence |-> justifiedSmuflDivergenceOf(def),
   isTranscribable |-> Bool(ToBoolean(def.transcribable))]

parseMungClassDefinition(className, def) ==
  [className |-> className,
   unicode |-> def.uc,
   isSmufl |-> Bool(isSmuflOf(def)),
   smuflEquivalents |-> def.smuflEquivalents,
   isMuscimaPP20 |-> Bool(ToBoolean(def.mpp)),
   isContainer |-> Bool(isContainerOf(def)),
   otherSmuflDivergenceJustification |-> def.otherSmuflDivergenceJustification,
   justifiedSmuflDivergence |-> justifiedSmuflDivergenceOf(def),
   isTranscribable |-> Bool(ToBoolean(def.transcribable))]

(***************************************************************************)
(* The initialisers of the three exported constants.                       *)
(***************************************************************************)
\* Variant: the call of sort() is left out.
SortedKeys_unsorted(table) == ObjectKeys(table)

\* Object.keys(DEFINITIONS).sort()
SortedKeys(table) == ArraySort(ObjectKeys(table))

\* .map((key) => parseMungClassDefinition(key, DEFINITIONS[key])) throws
\* when one call throws.
MungClassesThrows(table) ==
  \E i \in 1..Len(table) : parseThrows(table[i].def)

\* Variant: entries without a uc are filtered out before the map.
MungClassesOf_skipsNoGlyph(table) ==
  LET keys == SelectSeq(SortedKeys(table), LAMBDA k : GetDef(table, k).uc # Undefined)
  IN  Arr([i \in 1..Len(keys) |->
             parseMungClassDefinition(keys[i], GetDef(table, keys[i]))])

MungClassesOf(table) ==
  CHOOSE classes \in
    {Arr([i \in 1..Len(keys) |->
            parseMungClassDefinition(keys[i], GetDef(table, keys[i]))]) :
       keys \in {SortedKeys(table)}} :
    TRUE

\* MUNG_CLASSES.map((mc) => mc.className)
MungClassNamesOf(classes) ==
  Arr([i \in 1..Len(classes.v) |-> classes.v[i].className])

\* Variant: reduce is called without its initial value {}, so the first class
\* serves as the accumulator and gets no entry under its own name.
MungClassesByNameOf_noInitialValue(classes) ==
  LET n == Len(classes.v)
  IN  Obj([k \in {classes.v[i].className : i \in 2..n} |->
             classes.v[CHOOSE i \in 2..n : classes.v[i].className = k]])

\* Variant: the callback returns a fresh object holding only the new property,
\* so only the last class survives the reduce.
MungClassesByNameOf_fresh(classes) ==
  LET n == Len(classes.v)
  IN  IF n = 0 THEN Obj(<<>>)
      ELSE Obj([k \in {classes.v[n].className} |-> classes.v[n]])

\* MUNG_CLASSES.reduce((dict, mc) => { dict[mc.className] = mc; return dict }, {})
\* The accumulator starts as {} and gets one own property per className; a
\* later assignment to the same name overwrites an earlier one.
MungClassesByNameOf(classes) ==
  LET n == Len(classes.v)
      lastIndex(k) == CHOOSE i \in 1..n :
                        /\ classes.v[i].className = k
                        /\ \A j \in (i + 1)..n : classes.v[j].className # k
  IN  Obj([k \in {classes.v[i].className : i \in 1..n} |-> classes.v[lastIndex(k)]])

\* dict[name] on the plain object: the own property, else the property
\* inherited from Object.prototype (a function), else undefined.
GetProperty(dict, name) ==
  IF name \in DOMAIN dict.v THEN dict.v[name]
  ELSE IF name \in ObjectPrototypeNames THEN [t |-> "function", v |-> "Object.prototype"]
  ELSE Undefined

(***************************************************************************)
(* The state machine: the module's top-level statements run in order; once *)
(* they have run, importers read the exported constants.                   *)
(***************************************************************************)
Readers == 1..NumReaders

\* The names an importer looks up: the fixed ones, the class names of the
\* table, and the names its entries give as smuflEquivalents.
NamesToLookUp(table) ==
  LookupNames
    \cup {table[i].key : i \in 1..Len(table)}
    \cup UNION {{table[i].def.smuflEquivalents.v[j] :
                   j \in 1..Len(table[i].def.smuflEquivalents.v)} :
                i \in {k \in 1..Len(table) :
                         /\ table[k].def.t = "object"
                         /\ table[k].def.smuflEquivalents.t = "array"}}

\* The last read made by an importer: who read, what, and the value obtained.
NoResult == [reader |-> 0, op |-> "none", arg |-> <<>>, value |-> Undefined]

Init ==
  /\ DEFINITIONS \in RawTables
  /\ MUNG_CLASSES = NotEvaluated
  /\ MUNG_CLASS_NAMES = NotEvaluated
  /\ MUNG_CLASSES_BY_NAME = NotEvaluated
  /\ pc = "MUNG_CLASSES"
  /\ result = NoResult

\* Variant: the table itself is reordered by the sort.
EvalMungClasses_sortsTable ==
  /\ pc = "MUNG_CLASSES"
  /\ IF MungClassesThrows(DEFINITIONS)
     THEN /\ pc' = "threw"
          /\ MUNG_CLASSES' = MUNG_CLASSES
     ELSE /\ pc' = "MUNG_CLASS_NAMES"
          /\ MUNG_CLASSES' = MungClassesOf(DEFINITIONS)
  /\ DEFINITIONS' =
       LET keys == SortedKeys(DEFINITIONS)
       IN  [i \in 1..Len(keys) |-> Entry(keys[i], GetDef(DEFINITIONS, keys[i]))]
  /\ UNCHANGED <<MUNG_CLASS_NAMES, MUNG_CLASSES_BY_NAME, result>>

\* export const MUNG_CLASSES = Object.keys(DEFINITIONS).sort().map(...)
EvalMungClasses ==
  /\ pc = "MUNG_CLASSES"
  /\ IF MungClassesThrows(DEFINITIONS)
     THEN /\ pc' = "threw"
          /\ MUNG_CLASSES' = MUNG_CLASSES
     ELSE /\ pc' = "MUNG_CLASS_NAMES"
          /\ MUNG_CLASSES' = MungClassesOf(DEFINITIONS)
  /\ DEFINITIONS' = DEFINITIONS
  /\ UNCHANGED <<MUNG_CLASS_NAMES, MUNG_CLASSES_BY_NAME, result>>

\* export const MUNG_CLASS_NAMES = MUNG_CLASSES.map((mc) => mc.className)
EvalMungClassNames ==
  /\ pc = "MUNG_CLASS_NAMES"
  /\ MUNG_CLASS_NAMES' = MungClassNamesOf(MUNG_CLASSES)
  /\ pc' = "MUNG_CLASSES_BY_NAME"
  /\ UNCHANGED <<DEFINITIONS, MUNG_CLASSES, MUNG_CLASSES_BY_NAME, result>>

\* export const MUNG_CLASSES_BY_NAME = MUNG_CLASSES.reduce(..., {})
EvalMungClassesByName ==
  /\ pc = "MUNG_CLASSES_BY_NAME"
  /\ MUNG_CLASSES_BY_NAME' = MungClassesByNameOf(MUNG_CLASSES)
  /\ pc' = "loaded"
  /\ UNCHANGED <<DEFINITIONS, MUNG_CLASSES, MUNG_CLASS_NAMES, result>>

\* Variant: a miss is remembered by storing undefined under the name.
ReadByName_remembersMiss(reader, name) ==
  /\ pc = "loaded"
  /\ result = NoResult
  /\ result' = [reader |-> reader, op |-> "byName", arg |-> name,
                value |-> GetProperty(MUNG_CLASSES_BY_NAME, name)]
  /\ MUNG_CLASSES_BY_NAME' =
       IF name \in DOMAIN MUNG_CLASSES_BY_NAME.v
       THEN MUNG_CLASSES_BY_NAME
       ELSE Obj([k \in DOMAIN MUNG_CLASSES_BY_NAME.v \cup {name} |->
                   IF k = name THEN Undefined ELSE MUNG_CLASSES_BY_NAME.v[k]])
  /\ UNCHANGED <<DEFINITIONS, MUNG_CLASSES, MUNG_CLASS_NAMES, pc>>

\* An importer evaluates MUNG_CLASSES_BY_NAME[name].  Importers take turns in
\* any order, each read running to completion before the next starts.
ReadByName(reader, name) ==
  /\ pc = "loaded"
  /\ result = NoResult
  /\ result' = [reader |-> reader, op |-> "byName", arg |-> name,
                value |-> GetProperty(MUNG_CLASSES_BY_NAME, name)]
  /\ MUNG_CLASSES_BY_NAME' = MUNG_CLASSES_BY_NAME
  /\ UNCHANGED <<DEFINITIONS, MUNG_CLASSES, MUNG_CLASS_NAMES, pc>>

\* An importer evaluates MUNG_CLASSES.
ReadClasses(reader) ==
  /\ pc = "loaded"
  /\ result = NoResult
  /\ result' = [reader |-> reader, op |-> "classes", arg |-> <<>>,
                value |-> MUNG_CLASSES]
  /\ UNCHANGED <<DEFINITIONS, MUNG_CLASSES, MUNG_CLASS_NAMES, MUNG_CLASSES_BY_NAME, pc>>

\* An importer evaluates MUNG_CLASS_NAMES.
ReadClassNames(reader) ==
  /\ pc = "loaded"
  /\ result = NoResult
  /\ result' = [reader |-> reader, op |-> "classNames", arg |-> <<>>,
                value |-> MUNG_CLASS_NAMES]
  /\ UNCHANGED <<DEFINITIONS, MUNG_CLASSES, MUNG_CLASS_NAMES, MUNG_CLASSES_BY_NAME, pc>>

\* The importer has used the value; the next read expression can be evaluated
\* (JavaScript runs one expression at a time, to completion).
ReadDone ==
  /\ pc = "loaded"
  /\ result # NoResult
  /\ result' = NoResult
  /\ UNCHANGED <<DEFINITIONS, MUNG_CLASSES, MUNG_CLASS_NAMES, MUNG_CLASSES_BY_NAME, pc>>

Next ==
  \/ EvalMungClasses
  \/ EvalMungClassNames
  \/ EvalMungClassesByName
  \/ \E reader \in Readers, name \in NamesToLookUp(DEFINITIONS) :
       ReadByName(reader, name)
  \/ \E reader \in Readers : ReadClasses(reader)
  \/ \E reader \in Readers : ReadClassNames(reader)
  \/ ReadDone

Spec == Init /\ [][Next]_vars

\* The module as shipped: DEFINITIONS is the literal of lines 59-866.
ShippedInit ==
  /\ DEFINITIONS = ShippedDefinitions
  /\ MUNG_CLASSES = NotEvaluated
  /\ MUNG_CLASS_NAMES = NotEvaluated
  /\ MUNG_CLASSES_BY_NAME = NotEvaluated
  /\ pc = "MUNG_CLASSES"
  /\ result = NoResult

ShippedSpec == ShippedInit /\ [][Next]_vars

(***************************************************************************)
(* Vocabulary of the properties.                                           *)
(***************************************************************************)
Keys(table) == {table[i].key : i \in 1..Len(table)}

IsMungClass(v) == "className" \in DOMAIN v

ClassesEvaluated == MUNG_CLASSES # NotEvaluated

\* a < b in lexicographic order, stated without recursion: a and b agree
\* before some position k, where a ends and b goes on or a has the smaller unit.
LexLess(a, b) ==
  \E k \in 1..(Len(b)) :
    /\ k <= Len(a) + 1
    /\ \A j \in 1..(k - 1) : a[j] = b[j]
    /\ (k = Len(a) + 1 \/ a[k] < b[k])

HasReason(mc) ==
  \/ mc.isContainer = Bool(TRUE)
  \/ mc.isTranscribable = Bool(TRUE)
  \/ mc.otherSmuflDivergenceJustification # Undefined

\* The raw entry is an object that lacks its required uc.
MissingGlyph(def) == def.t = "object" /\ def.uc = Undefined

HasGlyph(def) == def.t = "object" /\ def.uc # Undefined

AllEntriesHaveGlyph == \A i \in 1..Len(DEFINITIONS) : HasGlyph(DEFINITIONS[i].def)

\* The raw entry is not standard-aligned and gives no reason for it.
Unjustified(def) ==
  /\ def.t = "object"
  /\ ToBoolean(def.notSmufl)
  /\ ~ToBoolean(def.container)
  /\ ~ToBoolean(def.transcribable)
  /\ def.otherSmuflDivergenceJustification = Undefined

(***************************************************************************)
(* C1: every descriptor with isSmufl false has justifiedSmuflDivergence    *)
(* true exactly when it is a container, or transcribable, or carries an    *)
(* otherSmuflDivergenceJustification, and false (never undefined)          *)
(* otherwise.                                                              *)
(***************************************************************************)
C1_JustifiedIffReason ==
  ClassesEvaluated =>
    \A i \in 1..Len(MUNG_CLASSES.v) :
      LET mc == MUNG_CLASSES.v[i]
      IN  mc.isSmufl = Bool(FALSE) =>
            mc.justifiedSmuflDivergence = Bool(HasReason(mc))

\* An entry whose only reason is an empty-string justification (present, hence
\* justified) has been parsed.
C1_Witness ==
  /\ ClassesEvaluated
  /\ \E i \in 1..Len(MUNG_CLASSES.v) :
       /\ MUNG_CLASSES.v[i].isSmufl = Bool(FALSE)
       /\ MUNG_CLASSES.v[i].otherSmuflDivergenceJustification = Str("")
       /\ MUNG_CLASSES.v[i].isContainer = Bool(FALSE)
       /\ MUNG_CLASSES.v[i].isTranscribable = Bool(FALSE)
       /\ MUNG_CLASSES.v[i].justifiedSmuflDivergence = Bool(TRUE)

(***************************************************************************)
(* C2: every descriptor with isSmufl true has justifiedSmuflDivergence     *)
(* undefined, whatever its isContainer, isTranscribable and                *)
(* otherSmuflDivergenceJustification are.                                  *)
(***************************************************************************)
C2_AlignedHasNoVerdict ==
  ClassesEvaluated =>
    \A i \in 1..Len(MUNG_CLASSES.v) :
      MUNG_CLASSES.v[i].isSmufl = Bool(TRUE) =>
        MUNG_CLASSES.v[i].justifiedSmuflDivergence = Undefined

\* A standard-aligned container (the shape of volta) has been parsed.
C2_Witness ==
  /\ ClassesEvaluated
  /\ \E i \in 1..Len(MUNG_CLASSES.v) :
       /\ MUNG_CLASSES.v[i].isSmufl = Bool(TRUE)
       /\ MUNG_CLASSES.v[i].isContainer = Bool(TRUE)
       /\ MUNG_CLASSES.v[i].justifiedSmuflDivergence = Undefined

(***************************************************************************)
(* C3: for every key n of DEFINITIONS, MUNG_CLASSES_BY_NAME[n] is a        *)
(* descriptor whose className is n.                                        *)
(***************************************************************************)
C3_ByNameFindsEveryKey ==
  pc = "loaded" =>
    \A n \in Keys(DEFINITIONS) :
      LET v == GetProperty(MUNG_CLASSES_BY_NAME, n)
      IN  IsMungClass(v) /\ v.className = n

\* An importer has looked up a key of a two-entry table, the first in sort
\* order, and got its descriptor.
C3_Witness ==
  /\ pc = "loaded"
  /\ Len(DEFINITIONS) = 2
  /\ result.op = "byName"
  /\ result.arg = brace
  /\ result.arg \in Keys(DEFINITIONS)
  /\ IsMungClass(result.value)
  /\ result.value.className = brace

(***************************************************************************)
(* C4: for every name that is not a key of DEFINITIONS ("doesNotExist",    *)
(* "toString", "constructor", ...), MUNG_CLASSES_BY_NAME[name] is the      *)
(* absent sentinel undefined, never another value.                         *)
(***************************************************************************)
C4_UnknownNameIsAbsent ==
  (result.op = "byName" /\ result.arg \notin Keys(DEFINITIONS)) =>
    result.value = Undefined

(***************************************************************************)
(* C5: MUNG_CLASS_NAMES and the className values of MUNG_CLASSES are the   *)
(* same sequence, and that sequence is strictly ascending (so it has no    *)
(* duplicates).                                                            *)
(***************************************************************************)
C5_NamesMatchAndAscend ==
  MUNG_CLASS_NAMES # NotEvaluated =>
    /\ Len(MUNG_CLASS_NAMES.v) = Len(MUNG_CLASSES.v)
    /\ \A i \in 1..Len(MUNG_CLASSES.v) : MUNG_CLASS_NAMES.v[i] = MUNG_CLASSES.v[i].className
    /\ \A i \in 1..(Len(MUNG_CLASS_NAMES.v) - 1) :
         LexLess(MUNG_CLASS_NAMES.v[i], MUNG_CLASS_NAMES.v[i + 1])

\* The table lists staffLine before its prefix staff; the views list staff first.
C5_Witness ==
  /\ MUNG_CLASS_NAMES # NotEvaluated
  /\ Len(DEFINITIONS) = 2
  /\ DEFINITIONS[1].key = staffLine
  /\ DEFINITIONS[2].key = staff
  /\ MUNG_CLASS_NAMES = Arr(<<staff, staffLine>>)

(***************************************************************************)
(* C6: construction yields exactly one descriptor per raw entry: the       *)
(* className values of MUNG_CLASSES are the keys of DEFINITIONS, and there *)
(* are as many descriptors as entries.                                     *)
(***************************************************************************)
C6_OneDescriptorPerEntry ==
  ClassesEvaluated =>
    /\ Len(MUNG_CLASSES.v) = Len(DEFINITIONS)
    /\ {MUNG_CLASSES.v[i].className : i \in 1..Len(MUNG_CLASSES.v)} = Keys(DEFINITIONS)

\* Two entries, one of them without a glyph, both kept.
C6_Witness ==
  /\ ClassesEvaluated
  /\ Len(DEFINITIONS) = 2
  /\ Len(MUNG_CLASSES.v) = 2
  /\ \E i \in 1..2 : MissingGlyph(DEFINITIONS[i].def)

C9_DefectDoesNotFailConstruction ==
  AllEntriesHaveGlyph =>
    /\ pc # "threw"
    /\ ~MungClassesThrows(DEFINITIONS)
    /\ pc = "loaded" =>
         \A i \in 1..Len(DEFINITIONS) :
           Unjustified(DEFINITIONS[i].def) =>
             LET v == GetProperty(MUNG_CLASSES_BY_NAME, DEFINITIONS[i].key)
             IN  /\ IsMungClass(v)
                 /\ v \in {MUNG_CLASSES.v[j] : j \in 1..Len(MUNG_CLASSES.v)}
                 /\ v.justifiedSmuflDivergence = Bool(FALSE)

\* The shape of unclassified next to a justified entry, fully loaded.
C9_Witness ==
  /\ pc = "loaded"
  /\ AllEntriesHaveGlyph
  /\ Len(DEFINITIONS) = 2
  /\ \E i \in 1..2 :
       /\ DEFINITIONS[i].def = unclassifiedDef
       /\ MUNG_CLASSES_BY_NAME.v[DEFINITIONS[i].key].justifiedSmuflDivergence = Bool(FALSE)

(***************************************************************************)
(* C10: construction does not mutate its input: no step of the module's    *)
(* evaluation, and no read, changes the keys, their order or the field     *)
(* values of DEFINITIONS.                                                  *)
(***************************************************************************)
C10_InputNotMutated == [][DEFINITIONS' = DEFINITIONS]_vars

\* All three views are built from a table whose insertion order is not sorted.
C10_Witness ==
  /\ pc = "loaded"
  /\ Len(DEFINITIONS) = 2
  /\ LexLess(DEFINITIONS[2].key, DEFINITIONS[1].key)
  /\ MUNG_CLASSES.v[1].className = DEFINITIONS[2].key

(***************************************************************************)
(* C11: once the module is loaded the registry is read-only: whichever     *)
(* reader makes whichever read next, the step leaves DEFINITIONS and the   *)
(* three views unchanged, and the value it obtains is the one the same     *)
(* read obtains from a registry freshly built from DEFINITIONS.            *)
(***************************************************************************)
FreshValue(op, arg) ==
  LET classes == MungClassesOf(DEFINITIONS)
  IN  CASE op = "classes"    -> classes
        [] op = "classNames" -> MungClassNamesOf(classes)
        [] op = "byName"     -> GetProperty(MungClassesByNameOf(classes), arg)
        [] OTHER             -> Undefined

C11_ReadsLeaveRegistryUnchanged ==
  [][pc = "loaded" =>
       /\ UNCHANGED <<DEFINITIONS, MUNG_CLASSES, MUNG_CLASS_NAMES, MUNG_CLASSES_BY_NAME>>
       /\ result'.value = FreshValue(result'.op, result'.arg)]_vars

\* The second reader reads the name list of a two-entry registry; an earlier
\* read, by whichever reader, has not disturbed it.
C11_Witness ==
  /\ pc = "loaded"
  /\ result.reader = 2
  /\ result.op = "classNames"
  /\ result.value = Arr(<<brace, toString>>)

(***************************************************************************)
(* C12: in the shipped registry, every name listed in a descriptor's       *)
(* smuflEquivalents is a class name of the registry: looking it up in      *)
(* MUNG_CLASSES_BY_NAME gives a descriptor.                                *)
(***************************************************************************)
C12_EquivalentsResolve ==
  pc = "loaded" =>
    \A i \in 1..Len(MUNG_CLASSES.v) :
      LET eq == MUNG_CLASSES.v[i].smuflEquivalents
      IN  eq # Undefined =>
            \A j \in 1..Len(eq.v) :
              IsMungClass(GetProperty(MUNG_CLASSES_BY_NAME, eq.v[j]))

(***************************************************************************)
(* C13: each descriptor copies unicode, smuflEquivalents and               *)
(* otherSmuflDivergenceJustification unchanged from its raw definition     *)
(* (absent stays absent), and its isMuscimaPP20, isContainer and           *)
(* isTranscribable are booleans: the raw value when present, false when    *)
(* the raw field is absent.                                                *)
(***************************************************************************)
\* The descriptor built for the i-th entry of DEFINITIONS.
DescriptorOf(i) ==
  CHOOSE mc \in {MUNG_CLASSES.v[j] : j \in 1..Len(MUNG_CLASSES.v)} :
    mc.className = DEFINITIONS[i].key

Defaulted(raw) == IF raw = Undefined THEN Bool(FALSE) ELSE raw

C13_FieldsCopiedOrDefaulted ==
  ClassesEvaluated =>
    \A i \in 1..Len(DEFINITIONS) :
      LET def == DEFINITIONS[i].def
          mc == DescriptorOf(i)
      IN  /\ mc.unicode = def.uc
          /\ mc.smuflEquivalents = def.smuflEquivalents
          /\ mc.otherSmuflDivergenceJustification = def.otherSmuflDivergenceJustification
          /\ mc.isMuscimaPP20 = Defaulted(def.mpp)
          /\ mc.isContainer = Defaulted(def.container)
          /\ mc.isTranscribable = Defaulted(def.transcribable)
          /\ {mc.isMuscimaPP20, mc.isContainer, mc.isTranscribable}
                \subseteq {Bool(TRUE), Bool(FALSE)}

\* An entry with mpp absent, container false, transcribable true, a list of
\* equivalents and no justification has been parsed.
C13_Witness ==
  /\ ClassesEvaluated
  /\ Len(DEFINITIONS) = 1
  /\ DEFINITIONS[1].def.t = "object"
  /\ DEFINITIONS[1].def.mpp = Undefined
  /\ DEFINITIONS[1].def.container = Bool(FALSE)
  /\ DEFINITIONS[1].def.transcribable = Bool(TRUE)
  /\ DEFINITIONS[1].def.otherSmuflDivergenceJustification = Undefined
  /\ MUNG_CLASSES.v[1].smuflEquivalents = Arr(<<staff5Lines>>)
  /\ MUNG_CLASSES.v[1].isMuscimaPP20 = Bool(FALSE)
  /\ MUNG_CLASSES.v[1].isTranscribable = Bool(TRUE)
  /\ MUNG_CLASSES.v[1].otherSmuflDivergenceJustification = Undefined

(***************************************************************************)
(* C14: isSmufl is the negation of the raw notSmufl marker: true when the  *)
(* marker is absent or false, false when it is true or a non-empty string; *)
(* and a string marker is no justification: such an entry without          *)
(* container, transcribable or justification has justifiedSmuflDivergence  *)
(* false.                                                                  *)
(***************************************************************************)
NonEmptyString(x) == x.t = "string" /\ x.v # ""

C14_IsSmuflNegatesMarker ==
  ClassesEvaluated =>
    \A i \in 1..Len(DEFINITIONS) :
      LET def == DEFINITIONS[i].def
          mc == DescriptorOf(i)
      IN  /\ def.notSmufl \in {Undefined, Bool(FALSE)} => mc.isSmufl = Bool(TRUE)
          /\ (def.notSmufl = Bool(TRUE) \/ NonEmptyString(def.notSmufl)) =>
                mc.isSmufl = Bool(FALSE)
          /\ (NonEmptyString(def.notSmufl) /\ Unjustified(def)) =>
                mc.justifiedSmuflDivergence = Bool(FALSE)

\* An entry marked by a string alone has been parsed: not aligned, not justified.
C14_Witness ==
  /\ ClassesEvaluated
  /\ Len(DEFINITIONS) = 1
  /\ DEFINITIONS[1].def.t = "object"
  /\ DEFINITIONS[1].def.notSmufl = Str("legacy")
  /\ Unjustified(DEFINITIONS[1].def)
  /\ MUNG_CLASSES.v[1].isSmufl = Bool(FALSE)
  /\ MUNG_CLASSES.v[1].justifiedSmuflDivergence = Bool(FALSE)

(***************************************************************************)
(* C15: the three views do not depend on the insertion order of the raw    *)
(* table: every table holding the entries of DEFINITIONS in another order  *)
(* yields the same MUNG_CLASSES, the same MUNG_CLASS_NAMES and the same    *)
(* value of MUNG_CLASSES_BY_NAME[n] for every name n.                      *)
(***************************************************************************)
\* The tables that list the entries of table in another order.
Reorderings(table) ==
  LET n == Len(table)
  IN  {[i \in 1..n |-> table[p[i]]] :
         p \in {q \in [1..n -> 1..n] : \A i, j \in 1..n : i # j => q[i] # q[j]}}
        \ {table}

C15_ViewsIgnoreInsertionOrder ==
  \A other \in Reorderings(DEFINITIONS) :
    IF MungClassesThrows(other)
    THEN ~ClassesEvaluated
    ELSE /\ pc # "threw"
         /\ \A classes \in {MungClassesOf(other)} :
              /\ ClassesEvaluated => classes = MUNG_CLASSES
              /\ MUNG_CLASS_NAMES # NotEvaluated =>
                   MungClassNamesOf(classes) = MUNG_CLASS_NAMES
              /\ pc = "loaded" =>
                   \A dict \in {MungClassesByNameOf(classes)} :
                     \A n \in NamesToLookUp(DEFINITIONS) :
                       GetProperty(dict, n) = GetProperty(MUNG_CLASSES_BY_NAME, n)

\* The views are built from a table that lists toString before brace, and
\* they are those of the table that lists brace first.
C15_Witness ==
  /\ pc = "loaded"
  /\ Len(DEFINITIONS) = 2
  /\ DEFINITIONS[1].key = toString
  /\ DEFINITIONS[2].key = brace
  /\ DEFINITIONS[1].def # DEFINITIONS[2].def
  /\ MUNG_CLASSES = MungClassesOf(<<DEFINITIONS[2], DEFINITIONS[1]>>)
  /\ MUNG_CLASSES.v[1].className = brace

(***************************************************************************)
(* C16: the lookup view and the list view agree: at every index i,         *)
(* MUNG_CLASSES_BY_NAME[MUNG_CLASS_NAMES[i]] is MUNG_CLASSES[i], equal in   *)
(* every field, and every descriptor a lookup returns is an element of     *)
(* MUNG_CLASSES.                                                           *)
(***************************************************************************)
C16_LookupAgreesWithList ==
  pc = "loaded" =>
    /\ \A i \in 1..Len(MUNG_CLASS_NAMES.v) :
         GetProperty(MUNG_CLASSES_BY_NAME, MUNG_CLASS_NAMES.v[i]) = MUNG_CLASSES.v[i]
    /\ \A n \in NamesToLookUp(DEFINITIONS) :
         LET v == GetProperty(MUNG_CLASSES_BY_NAME, n)
         IN  IsMungClass(v) =>
               v \in {MUNG_CLASSES.v[i] : i \in 1..Len(MUNG_CLASSES.v)}
    /\ (result.op = "byName" /\ IsMungClass(result.value)) =>
         result.value \in {MUNG_CLASSES.v[i] : i \in 1..Len(MUNG_CLASSES.v)}

\* An importer has looked up the first name of a two-entry name list and got
\* the first descriptor of the list.
C16_Witness ==
  /\ pc = "loaded"
  /\ Len(MUNG_CLASS_NAMES.v) = 2
  /\ result.op = "byName"
  /\ result.arg = MUNG_CLASS_NAMES.v[1]
  /\ result.value = MUNG_CLASSES.v[1]

====
